---- MODULE Spec2Model ----
(***************************************************************************)
(* Model of the letterboxd-stats backend: the title normalizer, the        *)
(* multi-pass metadata resolver of SupabaseEnricher.enrich_films and the   *)
(* outbound rate limiter of the fallback (TMDB) service.                   *)
(*                                                                         *)
(* A title is a sequence of characters; a character is a one-element       *)
(* name (a string).  ASCII characters are written as themselves, the       *)
(* others by name: EACUTE (U+00E9), ATILDE (U+00C3), COPY (U+00A9),        *)
(* SZ (U+00DF), FHOOK (U+0192), ACUTE / TILDE (combining U+0301, U+0303),  *)
(* NKO3 (U+07C3), NKOLET (U+07E9), CJKa..CJKd (U+9A69, U+9A43, U+90E9,     *)
(* U+90C3).                                                                *)
(***************************************************************************)
EXTENDS Integers, Sequences, FiniteSets, TLC

(***************************************************************************)
(* Characters                                                              *)
(***************************************************************************)
LowerLetters == <<"a","b","c","d","e","f","g","h","i","j","k","l","m",
                  "n","o","p","q","r","s","t","u","v","w","x","y","z">>

UpperLetters == <<"A","B","C","D","E","F","G","H","I","J","K","L","M",
                  "N","O","P","Q","R","S","T","U","V","W","X","Y","Z">>

Range(s) == {s[i] : i \in DOMAIN s}

AsciiPunct == {":", "-", "!"}

AsciiChars == Range(LowerLetters) \cup Range(UpperLetters) \cup AsciiPunct \cup {" "}

\* characters of the Windows-1252 code page that are not ASCII, with their byte
Cp1252High == [EACUTE |-> "xE9", ATILDE |-> "xC3", COPY |-> "xA9",
               SZ |-> "xDF", FHOOK |-> "x83"]

CombiningMarks == {"ACUTE", "TILDE"}

\* word characters (\w) outside ASCII that survive NFKD and lower()
OtherWordChars == {"SZ", "FHOOK", "NKO3", "NKOLET", "CJKa", "CJKb", "CJKc", "CJKd"}

IsEncodable(c) == c \in AsciiChars \/ c \in DOMAIN Cp1252High

\* str.encode('windows-1252') of one character
EncodeChar(c) == IF c \in AsciiChars THEN c ELSE Cp1252High[c]

IsContinuation(b) == b \in {"xA9", "x83"}

\* the UTF-8 sequences that the bytes of the alphabet can form
Utf8Two(b1, b2) ==
    CASE b1 = "xC3" /\ b2 = "xA9" -> "EACUTE"
      [] b1 = "xC3" /\ b2 = "x83" -> "ATILDE"
      [] b1 = "xDF" /\ b2 = "xA9" -> "NKOLET"
      [] b1 = "xDF" /\ b2 = "x83" -> "NKO3"

Utf8Three(b2, b3) ==
    CASE b2 = "xA9" /\ b3 = "xA9" -> "CJKa"
      [] b2 = "xA9" /\ b3 = "x83" -> "CJKb"
      [] b2 = "x83" /\ b3 = "xA9" -> "CJKc"
      [] b2 = "x83" /\ b3 = "x83" -> "CJKd"

RECURSIVE DecodeUtf8(_)
\* bytes.decode('utf-8'): [ok, s]; ok is FALSE on UnicodeDecodeError
DecodeUtf8(bs) ==
    IF bs = <<>> THEN [ok |-> TRUE, s |-> <<>>]
    ELSE LET b == Head(bs) IN
      IF b \in AsciiChars THEN
        LET r == DecodeUtf8(Tail(bs)) IN [ok |-> r.ok, s |-> <<b>> \o r.s]
      ELSE IF b \in {"xC3", "xDF"} /\ Len(bs) >= 2 /\ IsContinuation(bs[2]) THEN
        LET r == DecodeUtf8(SubSeq(bs, 3, Len(bs))) IN
          [ok |-> r.ok, s |-> <<Utf8Two(b, bs[2])>> \o r.s]
      ELSE IF b = "xE9" /\ Len(bs) >= 3 /\ IsContinuation(bs[2]) /\ IsContinuation(bs[3]) THEN
        LET r == DecodeUtf8(SubSeq(bs, 4, Len(bs))) IN
          [ok |-> r.ok, s |-> <<Utf8Three(bs[2], bs[3])>> \o r.s]
      ELSE [ok |-> FALSE, s |-> <<>>]

\* title.encode('windows-1252').decode('utf-8'), the title unchanged on either error
FixMojibake(title) ==
    IF \E i \in DOMAIN title : ~IsEncodable(title[i]) THEN title
    ELSE LET r == DecodeUtf8([i \in DOMAIN title |-> EncodeChar(title[i])]) IN
         IF r.ok THEN r.s ELSE title

\* unicodedata.normalize('NFKD', c)
NFKDChar(c) ==
    CASE c = "EACUTE" -> <<"e", "ACUTE">>
      [] c = "ATILDE" -> <<"A", "TILDE">>
      [] OTHER -> <<c>>

RECURSIVE NFKD(_)
NFKD(s) == IF s = <<>> THEN <<>> ELSE NFKDChar(Head(s)) \o NFKD(Tail(s))

RECURSIVE DropCombining(_)
DropCombining(s) ==
    IF s = <<>> THEN <<>>
    ELSE IF Head(s) \in CombiningMarks THEN DropCombining(Tail(s))
    ELSE <<Head(s)>> \o DropCombining(Tail(s))

LowerChar(c) ==
    IF \E i \in DOMAIN UpperLetters : UpperLetters[i] = c
    THEN LowerLetters[CHOOSE i \in DOMAIN UpperLetters : UpperLetters[i] = c]
    ELSE c

Lower(s) == [i \in DOMAIN s |-> LowerChar(s[i])]

IsWordChar(c) == c \in Range(LowerLetters) \/ c \in Range(UpperLetters)
                 \/ c \in OtherWordChars \/ c \in {"EACUTE", "ATILDE"}

IsSpace(c) == c = " "

RECURSIVE RemovePunct(_)
\* re.sub(r"[^\w\s]", '', s)
RemovePunct(s) ==
    IF s = <<>> THEN <<>>
    ELSE IF IsWordChar(Head(s)) \/ IsSpace(Head(s)) THEN <<Head(s)>> \o RemovePunct(Tail(s))
    ELSE RemovePunct(Tail(s))

RECURSIVE CollapseSpaces(_)
\* re.sub(r'\s+', ' ', s)
CollapseSpaces(s) ==
    IF s = <<>> THEN <<>>
    ELSE IF IsSpace(Head(s)) /\ Len(s) >= 2 /\ IsSpace(s[2]) THEN CollapseSpaces(Tail(s))
    ELSE <<Head(s)>> \o CollapseSpaces(Tail(s))

\* str.strip() of a string whose whitespace runs are already single spaces
Strip(s) ==
    LET a == IF s # <<>> /\ IsSpace(Head(s)) THEN Tail(s) ELSE s
    IN  IF a # <<>> /\ IsSpace(a[Len(a)]) THEN SubSeq(a, 1, Len(a) - 1) ELSE a

_normalize_title(title) ==
    Strip(CollapseSpaces(RemovePunct(Lower(DropCombining(NFKD(FixMojibake(title)))))))

\* str.startswith
StartsWith(s, p) == Len(p) <= Len(s) /\ SubSeq(s, 1, Len(p)) = p

RECURSIVE SplitWords(_)
\* str.split() of a normalized title
SplitWords(s) ==
    IF s = <<>> THEN <<>>
    ELSE IF IsSpace(Head(s)) THEN SplitWords(Tail(s))
    ELSE LET n == IF \E i \in DOMAIN s : IsSpace(s[i])
                  THEN (CHOOSE i \in DOMAIN s : IsSpace(s[i]) /\ \A j \in 1..(i-1) : ~IsSpace(s[j])) - 1
                  ELSE Len(s)
         IN <<SubSeq(s, 1, n)>> \o SplitWords(SubSeq(s, n + 1, Len(s)))

(***************************************************************************)
(* Bounds of the model and constants of the program                        *)
(***************************************************************************)
\* most rows of the watched set
MaxFilms == 2

\* most rows of the watched set where the order of the titles is in question
MaxOrderFilms == 3

\* most characters of a title normalized on its own
MaxTitleLen == 3

\* titles per bulk query (batch_size is 50 in the source; scaled so that one
\* input yields several batches)
BatchSize == 1

\* abs(int(row_year) - year) <= 2
YearWindow == 2

\* len(norm_title) >= 5 for a prefix match
MinPrefixLen == 5

\* words[:2]
PrefixWords == 2

\* min(5, ...) workers of the catalog pools, min(15, ...) of the fallback pool
MaxSupabaseWorkers == 5

MaxTmdbWorkers == 15

\* &limit=50 of the prefix query
IlikeLimit == 50

\* config.TMDB_RATE_LIMIT = int(os.getenv("TMDB_RATE_LIMIT", "50")), here configured to 2
TMDB_RATE_LIMIT == 2

\* the window of the rate limiter: now - t < 10, sleep_time = 10 - ...
RateWindow == 10

\* pool workers of pass 5 in the model of the rate limiter
NumWorkers == 2

\* the most requests one _tmdb_search sends: the search with the year, the
\* search without it, the details of the top result
RequestsPerSearch == 3

\* the last second of the clock
MaxClock == 11

Min(a, b) == IF a <= b THEN a ELSE b

Abs(x) == IF x < 0 THEN -x ELSE x

(***************************************************************************)
(* The input universe and the two external services                        *)
(***************************************************************************)
T_Alien     == <<"A","l","i","e","n">>
T_AlienBang == <<"A","l","i","e","n","!">>
T_AlienCut  == <<"A","l","i","e","n"," ","C","u","t">>
T_AlienCuts == <<"A","l","i","e","n"," ","C","u","t","s">>
T_AlienCutZ == <<"A","l","i","e","n"," ","C","u","t",":"," ","Z">>
T_Aliens    == <<"A","l","i","e","n","s">>
T_UpTop     == <<"U","p"," ","T","o","p">>
T_UpTopBang == <<"U","p"," ","T","o","p","!">>
T_Upper     == <<"U","p","p","e","r">>

\* the (Name, Year) pairs a watched row may carry (year 0: unknown)
FilmKeys == {<<T_Alien, 0>>, <<T_Alien, 2005>>,
             <<T_AlienBang, 2000>>,
             <<T_AlienCut, 2000>>,
             <<T_Aliens, 2005>>,
             <<T_UpTop, 2005>>}

\* the rows of the catalog, in the order the service returns them
Catalog == <<
    [id |-> 1, title |-> T_Alien,     year |-> 0],
    [id |-> 2, title |-> T_Alien,     year |-> 2001],
    [id |-> 3, title |-> T_AlienCut,  year |-> 2005],
    [id |-> 4, title |-> T_Aliens,    year |-> 2005],
    [id |-> 5, title |-> T_AlienCuts, year |-> 2000],
    [id |-> 6, title |-> T_AlienCutZ, year |-> 2001],
    [id |-> 7, title |-> T_UpTopBang, year |-> 2006] >>

\* the movies of the fallback service, most popular first
TmdbMovies == <<
    [id |-> 101, title |-> T_Alien,  original_title |-> T_Alien,  year |-> 1979],
    [id |-> 102, title |-> T_Aliens, original_title |-> T_Aliens, year |-> 2005],
    [id |-> 103, title |-> T_Upper,  original_title |-> T_Upper,  year |-> 2000] >>

\* every title the resolver meets: of the input, of the catalog, of the fallback service
KnownTitles == {k[1] : k \in FilmKeys} \cup {r.title : r \in Range(Catalog)}
               \cup {m.title : m \in Range(TmdbMovies)}
               \cup {m.original_title : m \in Range(TmdbMovies)}

\* _normalize_title on the known titles, evaluated once
NormTable == [t \in KnownTitles |-> _normalize_title(t)]

Norm(title) == IF title \in KnownTitles THEN NormTable[title] ELSE _normalize_title(title)

NoRow == [id |-> 0, title |-> <<>>, year |-> 0]

None == [tmdb_id |-> 0]

RECURSIVE SelectSeq2(_, _)
\* the subsequence of s at the indexes whose element is in the set keep
SelectSeq2(s, keep) ==
    IF s = <<>> THEN <<>>
    ELSE IF Head(s) \in keep THEN <<Head(s)>> \o SelectSeq2(Tail(s), keep)
    ELSE SelectSeq2(Tail(s), keep)

Take(s, n) == SubSeq(s, 1, Min(n, Len(s)))

\* the reply of GET movies?title=in.(...): the rows whose title is one of titles
CatalogBatchReply(titles) ==
    SelectSeq2(Catalog, {r \in Range(Catalog) : r.title \in Range(titles)})

\* the reply of GET movies?title=ilike.<prefix>*&limit=50
CatalogIlikeReply(prefix) ==
    Take(SelectSeq2(Catalog, {r \in Range(Catalog) : StartsWith(Lower(r.title), Lower(prefix))}),
         IlikeLimit)

\* a batch query whose failure is not caught: the rows come through anyway
QueryBatchUncaught(titles, ok) == CatalogBatchReply(titles)

\* _query_supabase_batch: the rows of the reply, [] when the call fails
_query_supabase_batch(titles, ok) == IF ok THEN CatalogBatchReply(titles) ELSE <<>>

\* _query_supabase_ilike: the rows of the reply, [] when the call fails
_query_supabase_ilike(prefix, ok) == IF ok THEN CatalogIlikeReply(prefix) ELSE <<>>

\* _transform_supabase_row
_transform_supabase_row(row) == [tmdb_id |-> row.id, title |-> row.title, backdrop_path |-> "None"]

(***************************************************************************)
(* Ordered dictionaries (Python dict): sequences of [k, v] with distinct k *)
(***************************************************************************)
DictHas(d, k) == \E i \in DOMAIN d : d[i].k = k

DictIndex(d, k) == CHOOSE i \in DOMAIN d : d[i].k = k

\* d.get(k, [])
DictGet(d, k) == IF DictHas(d, k) THEN d[DictIndex(d, k)].v ELSE <<>>

\* d.setdefault(k, []).extend(vs)
DictExtend(d, k, vs) ==
    IF DictHas(d, k)
    THEN [d EXCEPT ![DictIndex(d, k)].v = @ \o vs]
    ELSE Append(d, [k |-> k, v |-> vs])

\* a function with one more (or one replaced) entry: f[k] = v
Put(f, k, v) == [x \in DOMAIN f \cup {k} |-> IF x = k THEN v ELSE f[x]]

\* f.pop(k, None)
Pop(f, k) == [x \in DOMAIN f \ {k} |-> f[x]]

InWindow(row, year) == row.year # 0 /\ Abs(row.year - year) <= YearWindow

RECURSIVE FirstInWindow(_, _)
\* for row in candidates: if row_year and abs(int(row_year) - year) <= 2: matched = row; break
FirstInWindow(rows, year) ==
    IF rows = <<>> THEN NoRow
    ELSE IF InWindow(Head(rows), year) THEN Head(rows)
    ELSE FirstInWindow(Tail(rows), year)


(***************************************************************************)
(* enrich_films: the passes as functions of what they read                 *)
(***************************************************************************)
EmptyMap == [x \in {} |-> None]

Key(title, year) == <<title, year>>

RECURSIVE CollectFilms(_)
\* for _, row in films_df.iterrows(): ... if year > 0: film_list.append((title, year))
CollectFilms(rows) ==
    IF rows = <<>> THEN <<>>
    ELSE IF Head(rows)[2] > 0 THEN <<Head(rows)>> \o CollectFilms(Tail(rows))
    ELSE CollectFilms(Tail(rows))

\* the orders in which list({title for title, _ in film_list}) may list the titles
TitleOrders(film_list) ==
    LET ts == {film_list[i][1] : i \in DOMAIN film_list}
        n  == Cardinality(ts)
    IN  {o \in [1..n -> ts] : \A i, j \in 1..n : i # j => o[i] # o[j]}

\* [unique_titles[i:i + batch_size] for i in range(0, len(unique_titles), batch_size)]
MakeBatches(unique_titles) ==
    LET n == Len(unique_titles)
        k == (n + BatchSize - 1) \div BatchSize
    IN  [b \in 1..k |-> SubSeq(unique_titles, (b - 1) * BatchSize + 1, Min(b * BatchSize, n))]

RECURSIVE MergeRows(_, _)
MergeRows(rows, d) ==
    IF rows = <<>> THEN d
    ELSE MergeRows(Tail(rows), DictExtend(d, Head(rows).title, <<Head(rows)>>))

RECURSIVE MergeBatches(_, _)
\* for rows in batch_results: for row in rows: supabase_results[row.title].append(row)
MergeBatches(results, d) ==
    IF results = <<>> THEN d
    ELSE MergeBatches(Tail(results), MergeRows(Head(results), d))

\* what a pass hands to the next: the mapping, the rows behind it, the misses
Acc(enr, prov, needed, reasons) ==
    [enr |-> enr, prov |-> prov, needed |-> needed, reasons |-> reasons]

\* enriched[(title, year)] = self._transform_supabase_row(matched), by pass n
Resolve(acc, k, row, n) ==
    [acc EXCEPT !.enr = Put(@, k, _transform_supabase_row(row)),
                !.prov = Put(@, k, [pass |-> n, row |-> row])]

RECURSIVE Pass1(_, _, _)
\* Pass 1: exact title match + year within the window
Pass1(list, sres, acc) ==
    IF list = <<>> THEN acc
    ELSE LET k == Head(list)
             candidates == DictGet(sres, k[1])
             matched == FirstInWindow(candidates, k[2])
         IN  Pass1(Tail(list), sres,
                IF matched # NoRow
                THEN Resolve(acc, k, matched, 1)
                ELSE [acc EXCEPT
                        !.reasons = Put(@, k, IF candidates # <<>> THEN "year_mismatch"
                                                ELSE "not_in_db"),
                        !.needed = Append(@, k)])

RECURSIVE NormalizedLookup(_, _)
\* normalized_lookup[self._normalize_title(title_key)].extend(rows)
NormalizedLookup(sres, d) ==
    IF sres = <<>> THEN d
    ELSE NormalizedLookup(Tail(sres), DictExtend(d, Norm(Head(sres).k), Head(sres).v))

RECURSIVE Pass2(_, _, _)
\* Pass 2: normalized title match; acc.needed is still_needed
Pass2(list, lookup, acc) ==
    IF list = <<>> THEN acc
    ELSE LET k == Head(list)
             matched == FirstInWindow(DictGet(lookup, Norm(k[1])), k[2])
         IN  Pass2(Tail(list), lookup,
                IF matched # NoRow
                THEN [Resolve(acc, k, matched, 2) EXCEPT !.reasons = Pop(@, k)]
                ELSE [acc EXCEPT !.needed = Append(@, k)])

RECURSIVE NormEntries(_)
\* norm_supabase_entries: (norm_key, row) for every fetched row
NormEntries(sres) ==
    IF sres = <<>> THEN <<>>
    ELSE [i \in DOMAIN Head(sres).v |->
            [nk |-> Norm(Head(sres).k), row |-> Head(sres).v[i]]]
         \o NormEntries(Tail(sres))

\* the prefix test without the word boundary
PrefixMatchNoBoundary(norm_key, norm_title) == StartsWith(norm_key, norm_title)

\* norm_key.startswith(norm_title) and (len(norm_key) == len(norm_title)
\*                                      or norm_key[len(norm_title)] == ' ')
PrefixMatch(norm_key, norm_title) ==
    /\ StartsWith(norm_key, norm_title)
    /\ (Len(norm_key) = Len(norm_title) \/ norm_key[Len(norm_title) + 1] = " ")

RECURSIVE FirstPrefixEntry(_, _, _)
FirstPrefixEntry(entries, norm_title, year) ==
    IF entries = <<>> THEN NoRow
    ELSE IF PrefixMatch(Head(entries).nk, norm_title) /\ InWindow(Head(entries).row, year)
         THEN Head(entries).row
         ELSE FirstPrefixEntry(Tail(entries), norm_title, year)

RECURSIVE Pass3(_, _, _)
\* Pass 3: prefix match against the rows already fetched
Pass3(list, entries, acc) ==
    IF list = <<>> THEN acc
    ELSE LET k == Head(list)
             norm_title == Norm(k[1])
             matched == IF Len(norm_title) < MinPrefixLen THEN NoRow
                        ELSE FirstPrefixEntry(entries, norm_title, k[2])
         IN  Pass3(Tail(list), entries,
                IF matched # NoRow
                THEN [Resolve(acc, k, matched, 3) EXCEPT !.reasons = Pop(@, k)]
                ELSE [acc EXCEPT !.needed = Append(@, k)])

\* ' '.join(words[:2]) of a normalized title of at least two words
PrefixOf(title) ==
    LET words == SplitWords(Norm(title))
    IN  words[1] \o <<" ">> \o words[2]

HasPrefix(title) == Len(SplitWords(Norm(title))) >= PrefixWords

RECURSIVE GroupByPrefix(_, _)
\* prefix_to_films.setdefault(prefix, []).append((title, year))
GroupByPrefix(list, d) ==
    IF list = <<>> THEN d
    ELSE IF HasPrefix(Head(list)[1])
         THEN GroupByPrefix(Tail(list), DictExtend(d, PrefixOf(Head(list)[1]), <<Head(list)>>))
         ELSE GroupByPrefix(Tail(list), d)

RECURSIVE NoPrefixFilms(_)
NoPrefixFilms(list) ==
    IF list = <<>> THEN <<>>
    ELSE IF HasPrefix(Head(list)[1]) THEN NoPrefixFilms(Tail(list))
    ELSE <<Head(list)>> \o NoPrefixFilms(Tail(list))

RECURSIVE FirstIlikeRow(_, _, _)
\* the candidate loop of pass 4
FirstIlikeRow(rows, norm_title, year) ==
    IF rows = <<>> THEN NoRow
    ELSE LET row == Head(rows)
             norm_row == Norm(row.title)
         IN  IF ~InWindow(row, year) THEN FirstIlikeRow(Tail(rows), norm_title, year)
             ELSE IF norm_row = norm_title THEN row
             ELSE IF Len(norm_title) >= MinPrefixLen /\ PrefixMatch(norm_row, norm_title) THEN row
             ELSE FirstIlikeRow(Tail(rows), norm_title, year)

RECURSIVE Pass4Films(_, _, _)
Pass4Films(list, rows, acc) ==
    IF list = <<>> THEN acc
    ELSE LET k == Head(list)
             matched == FirstIlikeRow(rows, Norm(k[1]), k[2])
         IN  Pass4Films(Tail(list), rows,
                IF matched # NoRow
                THEN [Resolve(acc, k, matched, 4) EXCEPT !.reasons = Pop(@, k)]
                ELSE [acc EXCEPT !.needed = Append(@, k)])

RECURSIVE Pass4(_, _, _)
\* Pass 4: for prefix, films_for_prefix in prefix_to_films.items(): ...
Pass4(groups, results, acc) ==
    IF groups = <<>> THEN acc
    ELSE Pass4(Tail(groups), results,
               Pass4Films(Head(groups).v,
                          IF Head(groups).k \in DOMAIN results THEN results[Head(groups).k] ELSE <<>>,
                          acc))


(***************************************************************************)
(* The fallback service as _tmdb_search sees it                            *)
(***************************************************************************)
\* Python's "a in b" on strings
Contains(s, sub) ==
    \E i \in 0..(Len(s) - Len(sub)) : SubSeq(s, i + 1, i + Len(sub)) = sub

\* the reply of search/movie: the movies whose title starts with the first word
\* of the query, of the given release year when one is sent (0: no year sent)
TmdbSearchReply(query, year) ==
    LET words == SplitWords(Norm(query))
    IN  IF words = <<>> THEN <<>>
        ELSE SelectSeq2(TmdbMovies,
               {m \in Range(TmdbMovies) :
                    /\ StartsWith(Norm(m.title), words[1])
                    /\ (year = 0 \/ m.year = year)})

\* the title check of _tmdb_search on the top result
TmdbTitleValid(title, movie) ==
    LET norm_search == Norm(title)
        norm_result == Norm(movie.title)
        norm_orig   == Norm(movie.original_title)
    IN  ~(/\ ~Contains(norm_result, norm_search) /\ ~Contains(norm_search, norm_result)
          /\ ~Contains(norm_orig, norm_search)   /\ ~Contains(norm_search, norm_orig))

\* the movie _tmdb_search settles on, NoRow when it returns None; with the
\* service down every _tmdb_request returns None
TmdbCandidate(title, year, up) ==
    LET first  == IF up THEN TmdbSearchReply(title, year) ELSE <<>>
        result == IF first # <<>> THEN first
                  ELSE IF up THEN TmdbSearchReply(title, 0) ELSE <<>>
    IN  IF result = <<>> THEN NoRow
        ELSE IF ~TmdbTitleValid(title, result[1]) THEN NoRow
        ELSE [id |-> result[1].id, title |-> result[1].title, year |-> result[1].year]

_tmdb_search(title, year, up) ==
    LET movie == TmdbCandidate(title, year, up)
    IN  IF movie = NoRow THEN None
        ELSE [tmdb_id |-> movie.id, title |-> movie.title, backdrop_path |-> "backdrop"]

\* the movie behind a record of the fallback service
MovieOf(record) ==
    LET m == CHOOSE m \in Range(TmdbMovies) : m.id = record.tmdb_id
    IN  [id |-> m.id, title |-> m.title, year |-> m.year]

(***************************************************************************)
(* State                                                                   *)
(***************************************************************************)
VARIABLES
    films,                 \* films_df: the rows (Name, Year) of the watched set
    fallback_enabled,      \* SupabaseEnricher.TMDB_FALLBACK_ENABLED
    tmdb_up,               \* whether the fallback service answers in this run
    pc,                    \* where enrich_films stands
    film_list, batches, batch_results, batch_pending,
    supabase_results,
    enriched, tmdb_needed, tmdb_needed_reasons,
    prefix_to_films, no_prefix_films, prefix_results, prefix_pending,
    futures5,              \* pass 5: per submitted film, the worker's state and result
    session_cache,         \* self._tmdb_session_cache
    new_cache_entries,     \* self._new_cache_entries
    fallback_films,        \* self._tmdb_fallback_films
    provenance,            \* history: per resolved key, the pass and the candidate matched
    examined,              \* history: the keys the current pass iterates over
    issued,                \* history: the outbound calls issued
    failed,                \* history: the outbound calls that failed
    out_of_order           \* history: a pool worker ended before one submitted earlier

VARIABLES
    clock,                 \* time.time(), in seconds
    rate_lock,             \* self._rate_lock: 0 when free, else the worker holding it
    request_times,         \* self._request_times, the ledger
    worker,                \* per pool worker of pass 5: where it stands, its now, requests left
    lim_cache,             \* the keys of self._tmdb_session_cache written so far
    admitted,              \* history: the times at which a request was let through
    writes                 \* history: the writes of workers to shared objects

lvars == <<clock, rate_lock, request_times, worker, lim_cache, admitted, writes>>

rvars == <<films, fallback_enabled, tmdb_up, pc, film_list, batches, batch_results,
           batch_pending, supabase_results, enriched, tmdb_needed, tmdb_needed_reasons,
           prefix_to_films, no_prefix_films, prefix_results, prefix_pending, futures5,
           session_cache, new_cache_entries, fallback_films, provenance, examined,
           issued, failed, out_of_order>>

VARIABLES
    norm                   \* _normalize_title applied to a title, once and again

VARIABLES
    letterboxd_data,       \* StatsCalculator.lb_data: the frames watched, diary, ratings, liked_films
    tmdb_data,             \* StatsCalculator.tmdb_data: the enrichment store, in insertion order
    stats,                 \* StatsCalculator.stats: the views set so far
    calc                   \* where calculate_all stands, and the methods called

VARIABLES
    transform              \* a catalog row or the details of a movie, and the record made of it

VARIABLES
    jobs,                  \* workers.jobs: the JobState of each job id of the table
    pipeline,              \* per job id, where its _run_pipeline stands
    request,               \* the call of a result endpoint under way, and its reply
    utcnow,                \* datetime.utcnow(), in minutes from the start of the process
    cleanup                \* where the coroutine cleanup_old_jobs stands

VARIABLES
    cache,                 \* the TMDBCache: _data, _dirty, _new_entries and the holder of _lock
    disk,                  \* the entries of config.CACHE_FILE
    threads,               \* per thread, where its call of mark_dirty or save stands
    marked                 \* history: the entries whose mark_dirty has set the flag, and has counted

nvars == <<norm>>

svars == <<letterboxd_data, tmdb_data, stats, calc>>

jvars == <<jobs, pipeline, request, utcnow, cleanup>>

cvars == <<cache, disk, threads, marked>>

ovars == <<transform, jvars, cvars>>

vars == <<rvars, lvars, nvars, svars, ovars>>

\* no title is being normalized
NormIdle == norm = [pc |-> "idle", title |-> <<>>, once |-> <<>>, twice |-> <<>>]

\* no StatsCalculator has been built
StatsIdle ==
    /\ letterboxd_data = <<>> /\ tmdb_data = <<>> /\ stats = <<>> /\ calc = [pc |-> "idle"]

\* no record is being made
TransformIdle == transform = [pc |-> "idle"]

\* no job has been uploaded, and no coroutine runs
JobsIdle ==
    /\ jobs = <<>> /\ pipeline = <<>> /\ request = [pc |-> "idle"]
    /\ utcnow = 0 /\ cleanup = [pc |-> "idle"]

\* no TMDBCache has been built
CacheIdle == cache = [pc |-> "idle"] /\ disk = {} /\ threads = <<>> /\ marked = <<>>

OthersIdle == TransformIdle /\ JobsIdle /\ CacheIdle

InputRows == UNION {[1..n -> FilmKeys] : n \in 0..MaxFilms}

\* watched rows whose titles are three distinct titles of the catalog's reach:
\* one the catalog does not hold and two it holds, of which both continue the first
OrderKeys == {<<T_AlienBang, 2003>>, <<T_AlienCut, 2000>>, <<T_AlienCutZ, 2005>>}

OrderRows == UNION {[1..n -> OrderKeys] : n \in 0..MaxOrderFilms}

\* SupabaseEnricher.__init__, and the state of enrich_films before its first line
ResolverAtStart ==
    /\ fallback_enabled \in BOOLEAN
    /\ tmdb_up \in (IF fallback_enabled THEN BOOLEAN ELSE {TRUE})
    /\ pc = "start"
    /\ film_list = <<>> /\ batches = <<>> /\ batch_results = <<>> /\ batch_pending = {}
    /\ supabase_results = <<>>
    /\ enriched = EmptyMap /\ tmdb_needed = <<>> /\ tmdb_needed_reasons = EmptyMap
    /\ prefix_to_films = <<>> /\ no_prefix_films = <<>>
    /\ prefix_results = EmptyMap /\ prefix_pending = {}
    /\ futures5 = <<>> /\ session_cache = EmptyMap /\ new_cache_entries = 0
    /\ fallback_films = <<>>
    /\ provenance = EmptyMap /\ examined = {} /\ issued = {} /\ failed = {}
    /\ out_of_order = FALSE

InitResolver == films \in InputRows /\ ResolverAtStart

(***************************************************************************)
(* enrich_films                                                            *)
(***************************************************************************)
\* lines 294-327: collect the films, batch the titles, open the pool and submit;
\* ThreadPoolExecutor(max_workers=0) raises ValueError
Start ==
    /\ pc = "start"
    /\ \E order \in TitleOrders(CollectFilms(films)) :
         LET bs == MakeBatches(order)
             max_supabase_workers == Min(MaxSupabaseWorkers, Len(bs))
         IN  /\ film_list' = CollectFilms(films)
             /\ batches' = bs
             /\ batch_results' = [i \in DOMAIN bs |-> <<>>]
             /\ IF max_supabase_workers <= 0
                THEN pc' = "raised" /\ batch_pending' = {} /\ issued' = issued
                ELSE /\ pc' = "pass0"
                     /\ batch_pending' = DOMAIN bs
                     /\ issued' = issued \cup {<<"batch", i>> : i \in DOMAIN bs}
    /\ UNCHANGED <<films, fallback_enabled, tmdb_up, supabase_results, enriched,
                   tmdb_needed, tmdb_needed_reasons, prefix_to_films, no_prefix_films,
                   prefix_results, prefix_pending, futures5, session_cache,
                   new_cache_entries, fallback_films, provenance, examined, failed>>
    /\ UNCHANGED <<out_of_order, lvars, nvars, svars, ovars>>

\* lines 320-335: one batch query ends (ok or not) and its rows go to its slot
BatchComplete(idx, ok) ==
    /\ pc = "pass0"
    /\ idx \in batch_pending
    /\ batch_results' = [batch_results EXCEPT ![idx] = _query_supabase_batch(batches[idx], ok)]
    /\ batch_pending' = batch_pending \ {idx}
    /\ failed' = IF ok THEN failed ELSE failed \cup {<<"batch", idx>>}
    /\ UNCHANGED <<films, fallback_enabled, tmdb_up, pc, film_list, batches,
                   supabase_results, enriched, tmdb_needed, tmdb_needed_reasons,
                   prefix_to_films, no_prefix_films, prefix_results, prefix_pending,
                   futures5, session_cache, new_cache_entries, fallback_films,
                   provenance, examined, issued>>
    /\ out_of_order' = (out_of_order \/ \E j \in batch_pending : j < idx)
    /\ UNCHANGED <<lvars, nvars, svars, ovars>>

\* what a pass leaves in the state
SetAcc(acc) ==
    /\ enriched' = acc.enr
    /\ provenance' = acc.prov
    /\ tmdb_needed' = acc.needed
    /\ tmdb_needed_reasons' = acc.reasons

\* lines 337-366: merge the batch results, then pass 1 over film_list
MergeAndPass1 ==
    /\ pc = "pass0"
    /\ batch_pending = {}
    /\ supabase_results' = MergeBatches(batch_results, <<>>)
    /\ SetAcc(Pass1(film_list, supabase_results', Acc(enriched, provenance, <<>>, EmptyMap)))
    /\ examined' = Range(film_list)
    /\ pc' = "pass2"
    /\ UNCHANGED <<films, fallback_enabled, tmdb_up, film_list, batches, batch_results,
                   batch_pending, prefix_to_films, no_prefix_films, prefix_results,
                   prefix_pending, futures5, session_cache, new_cache_entries,
                   fallback_films, issued, failed>>
    /\ UNCHANGED <<out_of_order, lvars, nvars, svars, ovars>>

\* the films a later pass iterates over: for title, year in tmdb_needed
Pass2Input == tmdb_needed

Pass3InputAll == film_list

Pass3Input == tmdb_needed

Pass4Input == tmdb_needed

Pass5Input == tmdb_needed

\* lines 368-396
Pass2Step ==
    /\ pc = "pass2"
    /\ SetAcc(Pass2(Pass2Input, NormalizedLookup(supabase_results, <<>>),
                    Acc(enriched, provenance, <<>>, tmdb_needed_reasons)))
    /\ examined' = Range(Pass2Input)
    /\ pc' = "pass3"
    /\ UNCHANGED <<films, fallback_enabled, tmdb_up, film_list, batches, batch_results,
                   batch_pending, supabase_results, prefix_to_films, no_prefix_films,
                   prefix_results, prefix_pending, futures5, session_cache,
                   new_cache_entries, fallback_films, issued, failed>>
    /\ UNCHANGED <<out_of_order, lvars, nvars, svars, ovars>>

\* lines 398-427
Pass3Step ==
    /\ pc = "pass3"
    /\ SetAcc(Pass3(Pass3Input, NormEntries(supabase_results),
                    Acc(enriched, provenance, <<>>, tmdb_needed_reasons)))
    /\ examined' = Range(Pass3Input)
    /\ pc' = "pass4"
    /\ UNCHANGED <<films, fallback_enabled, tmdb_up, film_list, batches, batch_results,
                   batch_pending, supabase_results, prefix_to_films, no_prefix_films,
                   prefix_results, prefix_pending, futures5, session_cache,
                   new_cache_entries, fallback_films, issued, failed>>
    /\ UNCHANGED <<out_of_order, lvars, nvars, svars, ovars>>

\* lines 436-455: group the misses by prefix and submit one query per prefix
Pass4Start ==
    /\ pc = "pass4"
    /\ prefix_to_films' = GroupByPrefix(Pass4Input, <<>>)
    /\ no_prefix_films' = NoPrefixFilms(Pass4Input)
    /\ prefix_pending' = {prefix_to_films'[i].k : i \in DOMAIN prefix_to_films'}
    /\ issued' = issued \cup {<<"ilike", p>> : p \in prefix_pending'}
    /\ examined' = Range(Pass4Input)
    /\ pc' = "pass4q"
    /\ UNCHANGED <<films, fallback_enabled, tmdb_up, film_list, batches, batch_results,
                   batch_pending, supabase_results, enriched, tmdb_needed,
                   tmdb_needed_reasons, prefix_results, futures5, session_cache,
                   new_cache_entries, fallback_films, provenance, failed>>
    /\ UNCHANGED <<out_of_order, lvars, nvars, svars, ovars>>

\* a prefix query filed by arrival: the n-th reply goes under the n-th prefix
PrefixCompleteByArrival(prefix, ok) ==
    /\ pc = "pass4q"
    /\ prefix \in prefix_pending
    /\ prefix_results' = Put(prefix_results,
                             prefix_to_films[Cardinality(DOMAIN prefix_results) + 1].k,
                             _query_supabase_ilike(prefix, ok))
    /\ prefix_pending' = prefix_pending \ {prefix}
    /\ failed' = IF ok THEN failed ELSE failed \cup {<<"ilike", prefix>>}
    /\ UNCHANGED <<films, fallback_enabled, tmdb_up, pc, film_list, batches, batch_results,
                   batch_pending, supabase_results, enriched, tmdb_needed,
                   tmdb_needed_reasons, prefix_to_films, no_prefix_films, futures5,
                   session_cache, new_cache_entries, fallback_films, provenance,
                   examined, issued>>
    /\ out_of_order' = (out_of_order \/ \E j \in DOMAIN prefix_to_films :
                            /\ prefix_to_films[j].k \in prefix_pending
                            /\ j < DictIndex(prefix_to_films, prefix))
    /\ UNCHANGED <<lvars, nvars, svars, ovars>>

\* lines 456-458: one prefix query ends and its rows are filed under its prefix
PrefixComplete(prefix, ok) ==
    /\ pc = "pass4q"
    /\ prefix \in prefix_pending
    /\ prefix_results' = Put(prefix_results, prefix, _query_supabase_ilike(prefix, ok))
    /\ prefix_pending' = prefix_pending \ {prefix}
    /\ failed' = IF ok THEN failed ELSE failed \cup {<<"ilike", prefix>>}
    /\ UNCHANGED <<films, fallback_enabled, tmdb_up, pc, film_list, batches, batch_results,
                   batch_pending, supabase_results, enriched, tmdb_needed,
                   tmdb_needed_reasons, prefix_to_films, no_prefix_films, futures5,
                   session_cache, new_cache_entries, fallback_films, provenance,
                   examined, issued>>
    /\ out_of_order' = (out_of_order \/ \E j \in DOMAIN prefix_to_films :
                            /\ prefix_to_films[j].k \in prefix_pending
                            /\ j < DictIndex(prefix_to_films, prefix))
    /\ UNCHANGED <<lvars, nvars, svars, ovars>>

\* lines 460-487
Pass4Match ==
    /\ pc = "pass4q"
    /\ prefix_pending = {}
    /\ SetAcc(Pass4(prefix_to_films, prefix_results,
                    Acc(enriched, provenance, no_prefix_films, tmdb_needed_reasons)))
    /\ pc' = "pass5"
    /\ UNCHANGED <<films, fallback_enabled, tmdb_up, film_list, batches, batch_results,
                   batch_pending, supabase_results, prefix_to_films, no_prefix_films,
                   prefix_results, prefix_pending, futures5, session_cache,
                   new_cache_entries, fallback_films, examined, issued, failed>>
    /\ UNCHANGED <<out_of_order, lvars, nvars, svars, ovars>>

\* lines 493-502: the fallback pool gets one task per miss, when enabled
Pass5Start ==
    /\ pc = "pass5"
    /\ IF fallback_enabled /\ tmdb_needed # <<>>
       THEN /\ futures5' = [i \in DOMAIN Pass5Input |->
                                [key |-> Pass5Input[i], st |-> "queued", result |-> None]]
            /\ examined' = Range(Pass5Input)
            /\ pc' = "pass5q"
       ELSE /\ futures5' = <<>>
            /\ examined' = {}
            /\ pc' = "report"
    /\ UNCHANGED <<films, fallback_enabled, tmdb_up, film_list, batches, batch_results,
                   batch_pending, supabase_results, enriched, tmdb_needed,
                   tmdb_needed_reasons, prefix_to_films, no_prefix_films, prefix_results,
                   prefix_pending, session_cache, new_cache_entries, fallback_films,
                   provenance, issued, failed>>
    /\ UNCHANGED <<out_of_order, lvars, nvars, svars, ovars>>

Searching == {i \in DOMAIN futures5 : futures5[i].st = "searching"}

\* lines 282-287: a pool worker takes a task and looks into the session cache
FetchBegin(i) ==
    /\ pc = "pass5q"
    /\ i \in DOMAIN futures5
    /\ futures5[i].st = "queued"
    /\ Cardinality(Searching) < Min(MaxTmdbWorkers, Len(tmdb_needed))
    /\ IF futures5[i].key[2] = 0
       THEN futures5' = [futures5 EXCEPT ![i].st = "finished"]
            /\ issued' = issued
       ELSE IF futures5[i].key \in DOMAIN session_cache
       THEN futures5' = [futures5 EXCEPT ![i].st = "finished",
                                         ![i].result = session_cache[futures5[i].key]]
            /\ issued' = issued
       ELSE futures5' = [futures5 EXCEPT ![i].st = "searching"]
            /\ issued' = issued \cup {<<"tmdb", i>>}
    /\ failed' = failed
    /\ UNCHANGED <<films, fallback_enabled, tmdb_up, pc, film_list, batches, batch_results,
                   batch_pending, supabase_results, enriched, tmdb_needed,
                   tmdb_needed_reasons, prefix_to_films, no_prefix_films, prefix_results,
                   prefix_pending, session_cache, new_cache_entries, fallback_films,
                   provenance, examined>>
    /\ UNCHANGED <<out_of_order, lvars, nvars, svars, ovars>>

\* lines 288-290: the search returns and the worker writes the session cache
FetchEnd(i) ==
    /\ pc = "pass5q"
    /\ i \in DOMAIN futures5
    /\ futures5[i].st = "searching"
    /\ LET result == _tmdb_search(futures5[i].key[1], futures5[i].key[2], tmdb_up)
       IN  /\ futures5' = [futures5 EXCEPT ![i].st = "finished", ![i].result = result]
           /\ session_cache' = Put(session_cache, futures5[i].key, result)
    /\ failed' = IF tmdb_up THEN failed ELSE failed \cup {<<"tmdb", i>>}
    /\ UNCHANGED <<films, fallback_enabled, tmdb_up, pc, film_list, batches, batch_results,
                   batch_pending, supabase_results, enriched, tmdb_needed,
                   tmdb_needed_reasons, prefix_to_films, no_prefix_films, prefix_results,
                   prefix_pending, new_cache_entries, fallback_films, provenance,
                   examined, issued>>
    /\ UNCHANGED <<out_of_order, lvars, nvars, svars, ovars>>

\* lines 503-508: as_completed hands a finished future to the main thread
Collect(i) ==
    /\ pc = "pass5q"
    /\ i \in DOMAIN futures5
    /\ futures5[i].st = "finished"
    /\ futures5' = [futures5 EXCEPT ![i].st = "collected"]
    /\ IF futures5[i].result # None
       THEN /\ enriched' = Put(enriched, futures5[i].key, futures5[i].result)
            /\ provenance' = Put(provenance, futures5[i].key,
                                 [pass |-> 5, row |-> MovieOf(futures5[i].result)])
            /\ new_cache_entries' = new_cache_entries + 1
       ELSE UNCHANGED <<enriched, provenance, new_cache_entries>>
    /\ UNCHANGED <<films, fallback_enabled, tmdb_up, pc, film_list, batches, batch_results,
                   batch_pending, supabase_results, tmdb_needed, tmdb_needed_reasons,
                   prefix_to_films, no_prefix_films, prefix_results, prefix_pending,
                   session_cache, fallback_films, examined, issued, failed>>
    /\ out_of_order' = (out_of_order \/ \E j \in 1..(i - 1) : futures5[j].st # "collected")
    /\ UNCHANGED <<lvars, nvars, svars, ovars>>

\* the with-block of the fallback pool ends when every future has been handled
Pass5Done ==
    /\ pc = "pass5q"
    /\ \A i \in DOMAIN futures5 : futures5[i].st = "collected"
    /\ pc' = "report"
    /\ UNCHANGED <<films, fallback_enabled, tmdb_up, film_list, batches, batch_results,
                   batch_pending, supabase_results, enriched, tmdb_needed,
                   tmdb_needed_reasons, prefix_to_films, no_prefix_films, prefix_results,
                   prefix_pending, futures5, session_cache, new_cache_entries,
                   fallback_films, provenance, examined, issued, failed>>
    /\ UNCHANGED <<out_of_order, lvars, nvars, svars, ovars>>

\* a record that forgets what pass 1 noted and always carries the default reason
MissRecordDefaultReason(k, enr, reasons) ==
    [title |-> k[1], year |-> k[2], tmdb_found |-> k \in DOMAIN enr,
     supabase_miss_reason |-> "not_in_db"]

\* one record of self._tmdb_fallback_films
MissRecord(k, enr, reasons) ==
    [title |-> k[1], year |-> k[2], tmdb_found |-> k \in DOMAIN enr,
     supabase_miss_reason |-> IF k \in DOMAIN reasons THEN reasons[k] ELSE "not_in_db"]

\* lines 514-528: the list of the films not found in the catalog, and the return
Report ==
    /\ pc = "report"
    /\ fallback_films' = [i \in DOMAIN tmdb_needed |->
                            MissRecord(tmdb_needed[i], enriched, tmdb_needed_reasons)]
    /\ pc' = "done"
    /\ UNCHANGED <<films, fallback_enabled, tmdb_up, film_list, batches, batch_results,
                   batch_pending, supabase_results, enriched, tmdb_needed,
                   tmdb_needed_reasons, prefix_to_films, no_prefix_films, prefix_results,
                   prefix_pending, futures5, session_cache, new_cache_entries,
                   provenance, examined, issued, failed>>
    /\ UNCHANGED <<out_of_order, lvars, nvars, svars, ovars>>

(***************************************************************************)
(* The workers of pass 5 in detail: _fetch_tmdb_single, _tmdb_search,      *)
(* _tmdb_request and _tmdb_rate_limit, with the clock                      *)
(***************************************************************************)
Workers == 1..NumWorkers

\* the cache keys of the tasks the workers are given
TaskKeys == {<<T_Alien, 2005>>, <<T_UpTop, 2005>>}

NoKey == <<>>

InitLimiter ==
    /\ clock = 0
    /\ rate_lock = 0
    /\ request_times = <<>>
    /\ worker = [w \in Workers |-> [pc |-> "idle", now |-> 0, sent |-> 0, key |-> NoKey]]
    /\ lim_cache = {}
    /\ admitted = <<>>
    /\ writes = {}

\* the resolver at rest, while the workers of pass 5 are looked at in detail
ResolverIdle ==
    /\ films = <<>> /\ fallback_enabled = TRUE /\ tmdb_up = TRUE
    /\ pc = "pass5q"
    /\ film_list = <<>> /\ batches = <<>> /\ batch_results = <<>> /\ batch_pending = {}
    /\ supabase_results = <<>>
    /\ enriched = EmptyMap /\ tmdb_needed = <<>> /\ tmdb_needed_reasons = EmptyMap
    /\ prefix_to_films = <<>> /\ no_prefix_films = <<>>
    /\ prefix_results = EmptyMap /\ prefix_pending = {}
    /\ futures5 = <<>> /\ session_cache = EmptyMap /\ new_cache_entries = 0
    /\ fallback_films = <<>>
    /\ provenance = EmptyMap /\ examined = {} /\ issued = {} /\ failed = {}
    /\ out_of_order = FALSE

\* [t for t in self._request_times if now - t < 10]
Prune(times, now) == SelectSeq(times, LAMBDA t : now - t < RateWindow)

\* a write of worker w to a shared object, with whether w holds the lock
Write(obj, w) == [obj |-> obj, by |-> w, locked |-> rate_lock = w]

\* time passes
Tick ==
    /\ clock < MaxClock
    /\ clock' = clock + 1
    /\ UNCHANGED <<rate_lock, request_times, worker, lim_cache, admitted, writes>>
    /\ UNCHANGED <<rvars, nvars, svars, ovars>>

\* lines 282-288: the worker takes a task; a key found in the session cache is
\* answered from it, otherwise the worker goes on to search
FetchSingle(w) ==
    /\ worker[w].pc = "idle"
    /\ \E k \in TaskKeys :
         worker' = [worker EXCEPT ![w].key = k,
                                  ![w].pc = IF k \in lim_cache THEN "done" ELSE "acquire"]
    /\ UNCHANGED <<clock, rate_lock, request_times, lim_cache, admitted, writes>>
    /\ UNCHANGED <<rvars, nvars, svars, ovars>>

\* line 189: with self._rate_lock
Acquire(w) ==
    /\ worker[w].pc = "acquire"
    /\ rate_lock = 0
    /\ rate_lock' = w
    /\ worker' = [worker EXCEPT ![w].pc = "prune"]
    /\ UNCHANGED <<clock, request_times, lim_cache, admitted, writes>>
    /\ UNCHANGED <<rvars, nvars, svars, ovars>>

\* lines 190-191: now = time.time(); drop the entries older than the window
PruneLedger(w) ==
    /\ worker[w].pc = "prune"
    /\ request_times' = Prune(request_times, clock)
    /\ worker' = [worker EXCEPT ![w].pc = "check", ![w].now = clock]
    /\ writes' = writes \cup {Write("_request_times", w)}
    /\ UNCHANGED <<clock, rate_lock, lim_cache, admitted>>
    /\ UNCHANGED <<rvars, nvars, svars, ovars>>

\* 10 - (now - self._request_times[0])
SleepTime(times, now) == RateWindow - (now - times[1])

\* lines 192-196: at the quota, sleep until the oldest entry is out of the window,
\* then empty the ledger
CheckQuota(w) ==
    /\ worker[w].pc = "check"
    /\ IF Len(request_times) >= TMDB_RATE_LIMIT
       THEN /\ clock >= worker[w].now + SleepTime(request_times, worker[w].now)
            /\ request_times' = <<>>
            /\ writes' = writes \cup {Write("_request_times", w)}
       ELSE UNCHANGED <<request_times, writes>>
    /\ worker' = [worker EXCEPT ![w].pc = "append"]
    /\ UNCHANGED <<clock, rate_lock, lim_cache, admitted>>
    /\ UNCHANGED <<rvars, nvars, svars, ovars>>

\* line 197 and the end of the with-block: the request is let through
AppendAndRelease(w) ==
    /\ worker[w].pc = "append"
    /\ request_times' = Append(request_times, clock)
    /\ admitted' = Append(admitted, clock)
    /\ writes' = writes \cup {Write("_request_times", w)}
    /\ rate_lock' = 0
    /\ worker' = [worker EXCEPT ![w].pc = "request", ![w].sent = @ + 1]
    /\ UNCHANGED <<clock, lim_cache>>
    /\ UNCHANGED <<rvars, nvars, svars, ovars>>

\* lines 201-233: the HTTP request returns; _tmdb_search sends its next request
\* (the retry without the year, the details) or returns
Request(w) ==
    /\ worker[w].pc = "request"
    /\ \E more \in BOOLEAN :
         /\ more => worker[w].sent < RequestsPerSearch
         /\ worker' = [worker EXCEPT ![w].pc = IF more THEN "acquire" ELSE "store"]
    /\ UNCHANGED <<clock, rate_lock, request_times, lim_cache, admitted, writes>>
    /\ UNCHANGED <<rvars, nvars, svars, ovars>>

\* line 289: self._tmdb_session_cache[cache_key] = result
StoreInCache(w) ==
    /\ worker[w].pc = "store"
    /\ lim_cache' = lim_cache \cup {worker[w].key}
    /\ writes' = writes \cup {Write("_tmdb_session_cache", w)}
    /\ worker' = [worker EXCEPT ![w].pc = "done"]
    /\ UNCHANGED <<clock, rate_lock, request_times, admitted>>
    /\ UNCHANGED <<rvars, nvars, svars, ovars>>

(***************************************************************************)
(* _normalize_title on its own: a title is normalized, and the result again *)
(***************************************************************************)
\* the characters of the titles normalized here
NormAlphabet == {"a", "A", " ", "!", "SZ", "FHOOK", "EACUTE", "ATILDE", "COPY", "ACUTE"}

Titles == UNION {[1..n -> NormAlphabet] : n \in 0..MaxTitleLen}

InitNorm == norm \in {[pc |-> "input", title |-> t, once |-> <<>>, twice |-> <<>>] : t \in Titles}

\* self._normalize_title(title)
NormalizeOnce ==
    /\ norm.pc = "input"
    /\ norm' = [norm EXCEPT !.pc = "once", !.once = _normalize_title(norm.title)]
    /\ UNCHANGED <<rvars, lvars, svars, ovars>>

\* self._normalize_title of what the first call returned
NormalizeAgain ==
    /\ norm.pc = "once"
    /\ norm' = [norm EXCEPT !.pc = "twice", !.twice = _normalize_title(norm.once)]
    /\ UNCHANGED <<rvars, lvars, svars, ovars>>

Init == InitResolver /\ InitLimiter /\ NormIdle /\ StatsIdle /\ OthersIdle

Next ==
    \/ Start
    \/ \E idx \in batch_pending, ok \in BOOLEAN : BatchComplete(idx, ok)
    \/ MergeAndPass1
    \/ Pass2Step
    \/ Pass3Step
    \/ Pass4Start
    \/ \E prefix \in prefix_pending, ok \in BOOLEAN : PrefixComplete(prefix, ok)
    \/ Pass4Match
    \/ Pass5Start
    \/ \E i \in DOMAIN futures5 : FetchBegin(i)
    \/ \E i \in DOMAIN futures5 : FetchEnd(i)
    \/ \E i \in DOMAIN futures5 : Collect(i)
    \/ Pass5Done
    \/ Report

Spec == Init /\ [][Next]_vars

InitL == ResolverIdle /\ InitLimiter /\ NormIdle /\ StatsIdle /\ OthersIdle

NextL ==
    \/ Tick
    \/ \E w \in Workers : FetchSingle(w)
    \/ \E w \in Workers : Acquire(w)
    \/ \E w \in Workers : PruneLedger(w)
    \/ \E w \in Workers : CheckQuota(w)
    \/ \E w \in Workers : AppendAndRelease(w)
    \/ \E w \in Workers : Request(w)
    \/ \E w \in Workers : StoreInCache(w)

SpecL == InitL /\ [][NextL]_vars

InitN == ResolverIdle /\ InitLimiter /\ InitNorm /\ StatsIdle /\ OthersIdle

NextN == NormalizeOnce \/ NormalizeAgain

SpecN == InitN /\ [][NextN]_vars

\* the resolver on inputs of up to MaxOrderFilms rows over OrderKeys
InitO == films \in OrderRows /\ ResolverAtStart /\ InitLimiter /\ NormIdle /\ StatsIdle /\ OthersIdle

SpecO == InitO /\ [][Next]_vars

(***************************************************************************)
(* StatsCalculator.  A film key is <<name, year>>, the name an opaque       *)
(* number; a rating is counted in half stars (1 is 0.5, 10 is 5.0, 0 is no  *)
(* rating); an average is kept in hundredths of a star; a date is a number  *)
(* of days (see Dates below); the Rewatch cell ('Yes' or empty) is a        *)
(* boolean.  The methods modelled are called in the order of calculate_all. *)
(***************************************************************************)
\* config.TOP_ACTORS_COUNT, config.TOP_DIRECTORS_COUNT, config.TOP_GENRES_COUNT
TOP_ACTORS_COUNT == 20

TOP_DIRECTORS_COUNT == 15

TOP_GENRES_COUNT == 10

\* datetime.now().year
CurrentYear == 2026

\* the films of one decade in the inputs of the decade view
MaxDecadeFilms == 12

\* the films of the inputs of the rewatch view
MaxRewatchFilms == 12

\* the longest diary of the inputs of the journey view, and the days it covers
MaxDiaryLen == 2000

JourneyDays == 40

\* the longest text of a crew field, the largest cast and the largest crew
MaxCrewLen == 7

MaxCast == 11

MaxCrew == 4

\* 'runtime': row.get('runtime'), details.get('runtime'): the key is always
\* in the record, and its value is None when the source has no runtime
NoRuntime == -1

\* the watched frame of the small inputs, and a film of the store that is not in it
SmallWatched == << <<1, 1985>>, <<2, 1987>>, <<3, 1994>>, <<4, 1994>> >>

\* the enrichment store of the small inputs: per key, the metadata the views read
SmallStore == <<
    [k |-> <<1, 1985>>, v |-> [genres |-> <<"Drama">>, actors |-> <<"Ann", "Bob">>,
                               directors |-> <<"Dee">>, runtime |-> 100,
                               composers |-> <<"Zed">>, cinematographers |-> <<"Kim">>,
                               writers |-> <<"Wes", "Val">>,
                               production_companies |-> <<"Uni">>]],
    [k |-> <<9, 2001>>, v |-> [genres |-> <<"Drama">>, actors |-> <<"Ann", "Cy">>,
                               directors |-> <<"Dee">>, runtime |-> 95,
                               composers |-> <<"Abe">>, cinematographers |-> <<"Jo">>,
                               writers |-> <<"Val">>,
                               production_companies |-> <<"Mgm">>]],
    [k |-> <<2, 1987>>, v |-> [genres |-> <<"Drama">>, actors |-> <<"Ann">>,
                               directors |-> <<"Dee">>, runtime |-> 0,
                               composers |-> <<"Abe">>, cinematographers |-> <<"Kim">>,
                               writers |-> <<"Val">>,
                               production_companies |-> <<"Rko">>]],
    [k |-> <<3, 1994>>, v |-> [genres |-> <<"Drama", "Comedy">>, actors |-> <<"Bob", "Ann">>,
                               directors |-> <<"Eve">>, runtime |-> 185,
                               composers |-> <<"Abe", "Zed">>, cinematographers |-> <<"Jo">>,
                               writers |-> <<"Wes">>,
                               production_companies |-> <<"Rko", "Uni">>]],
    [k |-> <<4, 1994>>, v |-> [genres |-> <<"Comedy">>, actors |-> <<"Cy">>,
                               directors |-> <<"Eve", "Fay">>, runtime |-> 89,
                               composers |-> <<>>, cinematographers |-> <<"Jo">>,
                               writers |-> <<"Xan">>,
                               production_companies |-> <<"Mgm">>]] >>

\* the ratings frames of the small inputs: each watched film unrated, 3.5 or 5.0
SmallRatings ==
    {SelectSeq([i \in DOMAIN SmallWatched |-> [key |-> SmallWatched[i], rating |-> r[i]]],
               LAMBDA row : row.rating > 0) : r \in [DOMAIN SmallWatched -> {0, 7, 10}]}

\* a list built by a comprehension: the function as a sequence, element by element
List(f) == <<>> \o f

\* self.watched_set, self.liked_set (lines 23-37)
watched_set == Range(letterboxd_data.watched)

liked_set == Range(letterboxd_data.liked_films)

\* self.rating_dict.get((title, year), 0); a later row of the frame replaces an earlier one
_get_film_rating(key) ==
    LET rows == {i \in DOMAIN letterboxd_data.ratings : letterboxd_data.ratings[i].key = key}
    IN  IF rows = {} THEN 0
        ELSE letterboxd_data.ratings[CHOOSE i \in rows : \A j \in rows : j <= i].rating

RECURSIVE Mentions(_, _)
\* for (title, year), metadata in self.tmdb_data.items(): skip the films not
\* watched; for x in metadata.get(field, []): one mention [k, film, rating, liked]
Mentions(store, field) ==
    IF store = <<>> THEN <<>>
    ELSE IF Head(store).k \notin watched_set THEN Mentions(Tail(store), field)
    ELSE LET names == Head(store).v[field]
         IN  List([i \in DOMAIN names |-> [k |-> names[i],
                                           film |-> Head(store).k,
                                           rating |-> _get_film_rating(Head(store).k),
                                           liked |-> Head(store).k \in liked_set]])
             \o Mentions(Tail(store), field)

\* the entries of s, those with the larger key first, equal keys in their order
\* (sorted(..., reverse=True), list.sort(reverse=True), Counter.most_common)
StableSortDesc(s, K(_)) ==
    LET keys == List([i \in DOMAIN s |-> K(s[i])])
        pos  == List([i \in DOMAIN s |->
                        1 + Cardinality({j \in DOMAIN s : keys[j] > keys[i]
                                                          \/ (keys[j] = keys[i] /\ j < i)})])
    IN  List([p \in DOMAIN s |-> s[CHOOSE i \in DOMAIN s : pos[i] = p]])

\* a Counter (or a dict of lists) filled in the order of items: per key, in the
\* order of first appearance, the indexes at which it appears
Counter(items) ==
    LET firsts == SelectSeq(List([i \in DOMAIN items |-> i]),
                            LAMBDA i : \A j \in 1..(i - 1) : items[j] # items[i])
    IN  List([n \in DOMAIN firsts |->
                [k |-> items[firsts[n]],
                 at |-> {i \in DOMAIN items : items[i] = items[firsts[n]]}]])

\* Counter.most_common(n) as (key, count) pairs
MostCommon(counter, n) ==
    Take(StableSortDesc(List([i \in DOMAIN counter |->
                                [k |-> counter[i].k, count |-> Cardinality(counter[i].at)]]),
                        LAMBDA e : e.count), n)

RECURSIVE Sum(_)
Sum(s) == IF s = <<>> THEN 0 ELSE Head(s) + Sum(Tail(s))

\* round(sum(ratings_list) / len(ratings_list), 2) in hundredths of a star, the
\* ratings in half stars; a tie goes to the even hundredth
Round2(ratings_list) ==
    LET n == Len(ratings_list)
        num == 50 * Sum(ratings_list)
        q == num \div n
        r == num % n
    IN  IF 2 * r < n THEN q
        ELSE IF 2 * r > n THEN q + 1
        ELSE IF q % 2 = 0 THEN q ELSE q + 1

\* the mentions that carry a rating: if rating and rating > 0
Rated(mentions) == SelectSeq(mentions, LAMBDA m : m.rating > 0)

\* the ratings of the mentions at the indexes given, in their order
RatingsAt(mentions, at) ==
    LET rows == SelectSeq(List([i \in DOMAIN mentions |-> i]), LAMBDA i : i \in at)
    IN  List([n \in DOMAIN rows |-> mentions[rows[n]].rating])

\* favorites without the minimum number of rated films
FavoritesOfAny(mentions, min_films, cap) ==
    LET rated == Rated(mentions)
        x_ratings == Counter(List([i \in DOMAIN rated |-> rated[i].k]))
        all == List([i \in DOMAIN x_ratings |->
                        [name |-> x_ratings[i].k,
                         avg_rating |-> Round2(RatingsAt(rated, x_ratings[i].at)),
                         count |-> Cardinality(x_ratings[i].at)]])
    IN  Take(StableSortDesc(all, LAMBDA f : f.avg_rating), cap)

\* for x, ratings_list in x_ratings.items(): if len(ratings_list) >= min_films: ...
\* favorites.sort(key=avg_rating, reverse=True); favorites[:cap]
Favorites(mentions, min_films, cap) ==
    LET rated == Rated(mentions)
        x_ratings == Counter(List([i \in DOMAIN rated |-> rated[i].k]))
        all == List([i \in DOMAIN x_ratings |->
                        [name |-> x_ratings[i].k,
                         avg_rating |-> Round2(RatingsAt(rated, x_ratings[i].at)),
                         count |-> Cardinality(x_ratings[i].at)]])
    IN  Take(StableSortDesc(SelectSeq(all, LAMBDA f : f.count >= min_films),
                            LAMBDA f : f.avg_rating), cap)

\* top_by_count: for name, count in x_counts.most_common(cap): avg_rating = 0
\* unless the name has a rated film; the films of the name, the latest first
TopByCount(mentions, cap) ==
    LET top == MostCommon(Counter(List([i \in DOMAIN mentions |-> mentions[i].k])), cap)
    IN  List([n \in DOMAIN top |->
                LET mine == SelectSeq(mentions, LAMBDA m : m.k = top[n].k)
                    rated == Rated(mine)
                    by_year == StableSortDesc(mine, LAMBDA m : m.film[2])
                IN  [name |-> top[n].k, count |-> top[n].count,
                     films |-> List([i \in DOMAIN by_year |->
                                       [title |-> by_year[i].film[1], year |-> by_year[i].film[2],
                                        rating |-> by_year[i].rating, liked |-> by_year[i].liked]]),
                     liked_count |-> Len(SelectSeq(mine, LAMBDA m : m.liked)),
                     avg_rating |-> IF rated = <<>> THEN 0
                                    ELSE Round2(List([i \in DOMAIN rated |-> rated[i].rating]))]])

\* a method of the calculator is called when calc.done methods have been:
\* by calculate_all in its turn (lines 60-94) or directly on the calculator,
\* in the same order but for the crew and the studios
Turn(done) == calc.pc = "built" /\ calc.done = done

\* self.stats[key] = view, and the method returns; calc.raised is what the
\* last method called raised
Set(key, view) ==
    /\ stats' = Put(stats, key, view)
    /\ calc' = [calc EXCEPT !.done = @ + 1, !.raised = "no"]
    /\ UNCHANGED <<letterboxd_data, tmdb_data, rvars, lvars, nvars, ovars>>

_calculate_basic_stats ==
    /\ Turn(0)
    /\ Set("basic",
         [total_watched |-> Len(letterboxd_data.watched),
          total_rated |-> Len(letterboxd_data.ratings),
          total_liked |-> Len(letterboxd_data.liked_films),
          total_watchlist |-> Len(letterboxd_data.watchlist),
          total_diary_entries |-> Len(letterboxd_data.diary),
          avg_rating |-> IF letterboxd_data.ratings = <<>> THEN 0
                         ELSE Round2(List([i \in DOMAIN letterboxd_data.ratings |->
                                            letterboxd_data.ratings[i].rating])),
          rewatches |-> Len(SelectSeq(letterboxd_data.diary, LAMBDA e : e.rewatch))])

_calculate_genre_stats ==
    /\ Turn(1)
    /\ LET mentions == Mentions(tmdb_data, "genres")
           top == MostCommon(Counter(List([i \in DOMAIN mentions |-> mentions[i].k])),
                             TOP_GENRES_COUNT)
       IN  Set("genres",
             [distribution |-> List([n \in DOMAIN top |->
                                        [genre |-> top[n].k, count |-> top[n].count]]),
              favorites |-> Favorites(mentions, 3, 10),
              total_unique |-> Cardinality({mentions[i].k : i \in DOMAIN mentions})])

_calculate_actor_stats ==
    /\ Turn(2)
    /\ LET mentions == Mentions(tmdb_data, "actors")
       IN  Set("actors",
             [top_by_count |-> TopByCount(mentions, TOP_ACTORS_COUNT),
              favorites |-> Favorites(mentions, 3, 15),
              total_unique |-> Cardinality({mentions[i].k : i \in DOMAIN mentions})])

_calculate_director_stats ==
    /\ Turn(3)
    /\ LET mentions == Mentions(tmdb_data, "directors")
       IN  Set("directors",
             [top_by_count |-> TopByCount(mentions, TOP_DIRECTORS_COUNT),
              favorites |-> Favorites(mentions, 2, 10),
              total_unique |-> Cardinality({mentions[i].k : i \in DOMAIN mentions})])

\* if runtime and runtime > 0: a record without a runtime, or with runtime 0,
\* is not counted
HasRuntime(runtime) == runtime # NoRuntime /\ runtime # 0 /\ runtime > 0

\* the chain with each bound in the bucket below it
RuntimeBucketOpen(runtime) ==
    IF runtime <= 90 THEN "<90"
    ELSE IF runtime <= 120 THEN "90-120"
    ELSE IF runtime <= 150 THEN "120-150"
    ELSE IF runtime <= 180 THEN "150-180"
    ELSE "180+"

\* the bucket of one runtime: the if / elif chain of lines 384-393
RuntimeBucket(runtime) ==
    IF runtime < 90 THEN "<90"
    ELSE IF runtime < 120 THEN "90-120"
    ELSE IF runtime < 150 THEN "120-150"
    ELSE IF runtime < 180 THEN "150-180"
    ELSE "180+"

RuntimeBuckets == {"<90", "90-120", "120-150", "150-180", "180+"}

\* round(n / d) of two integers, d > 0: a half goes to the even integer
RoundDiv(n, d) ==
    LET q == n \div d
        r == n % d
    IN  IF 2 * r < d THEN q
        ELSE IF 2 * r > d THEN q + 1
        ELSE IF q % 2 = 0 THEN q ELSE q + 1

SeqMin(s) == CHOOSE x \in Range(s) : \A y \in Range(s) : x <= y

SeqMax(s) == CHOOSE x \in Range(s) : \A y \in Range(s) : x >= y

\* the runtime view of a store (lines 395-407), without 'average', 'shortest'
\* and 'longest'; the films counted are those of the store that are watched
\* and have a runtime
RuntimeView(store) ==
    LET timed == SelectSeq(store, LAMBDA e : e.k \in watched_set /\ HasRuntime(e.v.runtime))
        runtimes == List([i \in DOMAIN timed |-> timed[i].v.runtime])
        total_minutes == IF runtimes # <<>> THEN Sum(runtimes) ELSE 0
    IN  [total_hours |-> RoundDiv(total_minutes, 60),
         total_minutes |-> total_minutes,
         min_runtime |-> IF runtimes # <<>> THEN SeqMin(runtimes) ELSE 0,
         max_runtime |-> IF runtimes # <<>> THEN SeqMax(runtimes) ELSE 0,
         distribution |-> [b \in RuntimeBuckets |->
                             Len(SelectSeq(runtimes, LAMBDA r : RuntimeBucket(r) = b))]]

_calculate_runtime_stats ==
    /\ Turn(4)
    /\ Set("runtime", RuntimeView(tmdb_data))

\* lines 427-428 read config.TOP_COUNTRIES_COUNT and config.TOP_LANGUAGES_COUNT,
\* which app/config.py does not define: AttributeError, and no 'geography' is
\* set; calculate_all does not catch it and ends there
_calculate_country_language_stats ==
    /\ Turn(5)
    /\ calc' = [calc EXCEPT !.done = @ + 1, !.raised = "AttributeError",
                            !.pc = IF calc.caller = "calculate_all" THEN "raised" ELSE "built"]
    /\ UNCHANGED <<stats, letterboxd_data, tmdb_data, rvars, lvars, nvars, ovars>>

(***************************************************************************)
(* Dates.  A watch date is the number of days from 1 January 2019; .dt.year *)
(* and .dt.month are read off the calendar, and the difference of two dates *)
(* in days is the difference of the numbers.                                *)
(***************************************************************************)
IsLeap(y) == y % 4 = 0 /\ (y % 100 # 0 \/ y % 400 = 0)

YearStart(y) == 365 * (y - 2019) + Cardinality({z \in 2019..(y - 1) : IsLeap(z)})

MonthLen(y, m) ==
    IF m = 2 THEN (IF IsLeap(y) THEN 29 ELSE 28)
    ELSE IF m \in {4, 6, 9, 11} THEN 30 ELSE 31

MonthStart(y, m) == YearStart(y) + Sum(List([k \in 1..(m - 1) |-> MonthLen(y, k)]))

\* the date of a day of the calendar
Date(y, m, d) == MonthStart(y, m) + d - 1

\* Watched Date.dt.year
YearOf(date) ==
    CHOOSE y \in 2019..(CurrentYear + 1) : YearStart(y) <= date /\ date < YearStart(y + 1)

\* Watched Date.dt.month
MonthOf(date) ==
    LET y == YearOf(date)
    IN  CHOOSE m \in 1..12 : MonthStart(y, m) <= date /\ date < MonthStart(y, m) + MonthLen(y, m)

\* self.tmdb_data.get(key, {}).get(field, [])
StoreField(key, field) ==
    LET rows == SelectSeq(tmdb_data, LAMBDA e : e.k = key)
    IN  IF rows = <<>> THEN <<>> ELSE rows[1].v[field]

\* the film as the views show it (the poster path is not modelled); a rating
\* that is missing is 0
FilmInfo(key, rating) ==
    [title |-> key[1], year |-> key[2], rating |-> rating, liked |-> key \in liked_set]

RECURSIVE RowMentions(_, _)
\* for _, row in rows: for x in metadata.get(field, []): one mention [k, film]
RowMentions(rows, field) ==
    IF rows = <<>> THEN <<>>
    ELSE LET names == StoreField(Head(rows).key, field)
         IN  List([i \in DOMAIN names |->
                     [k |-> names[i], film |-> FilmInfo(Head(rows).key, Head(rows).rating)]])
             \o RowMentions(Tail(rows), field)

\* the rows of the diary that have metadata for the field: the others add no mention
RowsWith(rows, field) == SelectSeq(rows, LAMBDA e : StoreField(e.key, field) # <<>>)

\* counts.most_common(1)[0] with the films of the name, or None
TopWithFilms(mentions, cap) ==
    LET counter == Counter(List([i \in DOMAIN mentions |-> mentions[i].k]))
        top == MostCommon(counter, 1)
        mine == SelectSeq(mentions, LAMBDA m : m.k = top[1].k)
    IN  IF mentions = <<>> THEN None
        ELSE [name |-> top[1].k, count |-> top[1].count,
              films |-> Take(List([i \in DOMAIN mine |-> mine[i].film]), cap)]

\* _empty_year_stats (lines 713-728)
_empty_year_stats ==
    [total_films |-> 0, total_liked |-> 0, total_rated |-> 0, avg_rating |-> 0,
     top_rated |-> <<>>, bottom_rated |-> <<>>, top_actor |-> None, top_director |-> None,
     genre_distribution |-> <<>>, most_active_month |-> 0, most_active_month_count |-> 0,
     monthly_breakdown |-> <<>>]

\* diary[diary['Watched Date'].dt.year == year]
YearDiary(year) == SelectSeq(letterboxd_data.diary, LAMBDA e : YearOf(e.date) = year)

\* the months of the rows, and the months with the most rows: idxmax of
\* value_counts names one of them (0 when there is no row)
MonthsOf(rows) == List([i \in DOMAIN rows |-> MonthOf(rows[i].date)])

MonthCount(months, m) == Len(SelectSeq(months, LAMBDA x : x = m))

MostActiveMonths(year) ==
    LET months == MonthsOf(YearDiary(year))
    IN  IF months = <<>> THEN {0}
        ELSE {m \in Range(months) :
                \A x \in Range(months) : MonthCount(months, x) <= MonthCount(months, m)}

\* _get_year_stats(year) (lines 578-711), most_active_month the month idxmax names
_get_year_stats(year, most_active_month) ==
    LET year_diary == YearDiary(year)
        year_diary_rated == SelectSeq(year_diary, LAMBDA e : e.rating > 0)
        largest == Take(StableSortDesc(year_diary_rated, LAMBDA e : e.rating), 8)
        smallest == Take(StableSortDesc(year_diary_rated, LAMBDA e : 0 - e.rating), 8)
        months == MonthsOf(year_diary)
        month_list == SelectSeq(List([m \in 1..12 |-> m]), LAMBDA m : MonthCount(months, m) > 0)
        genres == RowMentions(RowsWith(year_diary, "genres"), "genres")
        genre_top == MostCommon(Counter(List([i \in DOMAIN genres |-> genres[i].k])), 10)
    IN  IF year_diary = <<>> THEN _empty_year_stats
        ELSE [total_films |-> Len(year_diary),
              total_liked |-> Len(SelectSeq(year_diary, LAMBDA e : e.key \in liked_set)),
              total_rated |-> Len(year_diary_rated),
              avg_rating |-> IF year_diary_rated = <<>> THEN 0
                             ELSE Round2(List([i \in DOMAIN year_diary_rated |->
                                                 year_diary_rated[i].rating])),
              top_rated |-> List([i \in DOMAIN largest |->
                                    FilmInfo(largest[i].key, largest[i].rating)]),
              bottom_rated |-> IF Len(year_diary_rated) >= 8
                               THEN List([i \in DOMAIN smallest |->
                                            FilmInfo(smallest[i].key, smallest[i].rating)])
                               ELSE <<>>,
              top_actor |-> TopWithFilms(RowMentions(RowsWith(year_diary, "actors"), "actors"), 10),
              top_director |-> TopWithFilms(RowMentions(RowsWith(year_diary, "directors"),
                                                        "directors"), Len(year_diary)),
              genre_distribution |-> List([n \in DOMAIN genre_top |->
                                             [genre |-> genre_top[n].k, count |-> genre_top[n].count]]),
              most_active_month |-> most_active_month,
              most_active_month_count |-> MonthCount(months, most_active_month),
              monthly_breakdown |-> List([n \in DOMAIN month_list |->
                                            [month |-> month_list[n],
                                             count |-> MonthCount(months, month_list[n])]])]

\* lines 560-576: an empty diary leaves the empty dict, with no year in it
_calculate_yearly_breakdown ==
    /\ Turn(6)
    /\ IF letterboxd_data.diary = <<>>
       THEN Set("yearly_breakdown", EmptyMap)
       ELSE \E last \in MostActiveMonths(CurrentYear - 1), current \in MostActiveMonths(CurrentYear) :
                Set("yearly_breakdown",
                    [last_full_year |-> _get_year_stats(CurrentYear - 1, last),
                     current_year |-> _get_year_stats(CurrentYear, current),
                     last_full_year_value |-> CurrentYear - 1,
                     current_year_value |-> CurrentYear])

\* lines 795-811: the buckets 0.5, 1.0, ..., 5.0 are the half stars 1..10; empty
\* ratings leave the empty list
_calculate_rating_distribution ==
    /\ Turn(7)
    /\ Set("rating_distribution",
           IF letterboxd_data.ratings = <<>> THEN <<>>
           ELSE List([r \in 1..10 |->
                        [rating |-> r,
                         count |-> Len(SelectSeq(letterboxd_data.ratings,
                                                 LAMBDA row : row.rating = r))]]))

RECURSIVE FavoriteAmong(_, _, _)
\* lines 867-874: for decade, ratings_list in decade_ratings.items(): a list of
\* at least min_films ratings whose average is above the best so far becomes
\* the best; best is None or [decade, sum, n], the average being sum / n
FavoriteAmong(decade_ratings, min_films, best) ==
    IF decade_ratings = <<>> THEN best
    ELSE LET d == Head(decade_ratings)
             above == IF best = None THEN d.sum > 0 ELSE d.sum * best.n > best.sum * d.n
         IN  FavoriteAmong(Tail(decade_ratings), min_films,
                           IF d.n >= min_films /\ above
                           THEN [decade |-> d.decade, sum |-> d.sum, n |-> d.n] ELSE best)

\* the favorite decade without the minimum number of rated films
FavoriteDecadeOfAny(decade_ratings) == FavoriteAmong(decade_ratings, 1, None)

\* if len(ratings_list) >= 10 (line 870)
FavoriteDecade(decade_ratings) == FavoriteAmong(decade_ratings, 10, None)

\* decade_films, and decade_ratings as [decade, sum, n] in the order the
\* decades get their first rating (lines 821-846)
DecadeFilms ==
    LET rows == SelectSeq(letterboxd_data.watched, LAMBDA key : key[2] > 0)
    IN  List([i \in DOMAIN rows |->
                [decade |-> (rows[i][2] \div 10) * 10,
                 info |-> FilmInfo(rows[i], _get_film_rating(rows[i]))]])

RatedOfDecade(decade_films, decade) ==
    SelectSeq(decade_films, LAMBDA f : f.decade = decade /\ f.info.rating > 0)

RatingsOfDecade(decade_films, decade) ==
    LET mine == RatedOfDecade(decade_films, decade)
    IN  List([i \in DOMAIN mine |-> mine[i].info.rating])

DecadeRatingLists(decade_films) ==
    LET rated == SelectSeq(decade_films, LAMBDA f : f.info.rating > 0)
        rated_decades == Counter(List([i \in DOMAIN rated |-> rated[i].decade]))
    IN  List([i \in DOMAIN rated_decades |->
                LET ratings_list == RatingsOfDecade(decade_films, rated_decades[i].k)
                IN  [decade |-> rated_decades[i].k, sum |-> Sum(ratings_list),
                     n |-> Len(ratings_list)]])

\* top_per_decade (lines 855-864), the decades in the order of their first film
TopPerDecade(decade_films, decade_counts) ==
    List([i \in DOMAIN decade_counts |->
            LET ratings_list == RatingsOfDecade(decade_films, decade_counts[i].k)
                sorted == StableSortDesc(RatedOfDecade(decade_films, decade_counts[i].k),
                            LAMBDA f : 2 * f.info.rating + (IF f.info.liked THEN 1 ELSE 0))
            IN  [decade |-> decade_counts[i].k,
                 films |-> Take(List([j \in DOMAIN sorted |-> sorted[j].info]), 5),
                 total |-> Cardinality(decade_counts[i].at),
                 avg_rating |-> IF ratings_list = <<>> THEN 0 ELSE Round2(ratings_list)]])

\* the view of lines 876-881; f"{decade}s" is kept as the decade it names
DecadesView ==
    LET decade_films == DecadeFilms
        decade_counts == Counter(List([i \in DOMAIN decade_films |-> decade_films[i].decade]))
        by_decade == StableSortDesc(decade_counts, LAMBDA c : 0 - c.k)
        favorite == FavoriteDecade(DecadeRatingLists(decade_films))
    IN  [distribution |-> List([i \in DOMAIN by_decade |->
                                  [decade_num |-> by_decade[i].k,
                                   count |-> Cardinality(by_decade[i].at)]]),
         top_per_decade |-> TopPerDecade(decade_films, decade_counts),
         favorite_decade |-> IF favorite = None THEN None ELSE [decade |-> favorite.decade],
         favorite_decade_avg |-> IF favorite = None THEN 0
                                 ELSE Round2(RatingsOfDecade(decade_films, favorite.decade))]

\* lines 813-881
_calculate_decade_stats ==
    /\ Turn(8)
    /\ IF letterboxd_data.watched = <<>>
       THEN Set("decades", [distribution |-> <<>>, top_per_decade |-> <<>>])
       ELSE Set("decades", DecadesView)

\* the count shown without the original watch
RewatchCountBare(count) == count

\* 'rewatch_count': count + 1, +1 for the original watch (line 912)
RewatchCount(count) == count + 1

\* lines 891-922: the rows flagged 'Yes', counted per film, the ten most common
RewatchesView ==
    LET rewatches == SelectSeq(letterboxd_data.diary, LAMBDA e : e.rewatch)
        rewatch_counts == Counter(List([i \in DOMAIN rewatches |-> rewatches[i].key]))
        top == MostCommon(rewatch_counts, 10)
    IN  IF rewatches = <<>>
        THEN [total |-> 0, films |-> <<>>, most_rewatched |-> <<>>]
        ELSE [total |-> Len(rewatches),
              unique_films |-> Len(rewatch_counts),
              most_rewatched |-> List([n \in DOMAIN top |->
                    [title |-> top[n].k[1], year |-> top[n].k[2],
                     rewatch_count |-> RewatchCount(top[n].count),
                     rating |-> _get_film_rating(top[n].k),
                     liked |-> top[n].k \in liked_set]])]

\* lines 883-922
_calculate_rewatch_stats ==
    /\ Turn(9)
    /\ Set("rewatches", RewatchesView)

\* milestone_numbers (line 959)
milestone_numbers == <<100, 250, 500, 750, 1000, 1500, 2000>>

\* the watch dates of the diary, each once, the earliest first
SortedDates(diary) ==
    LET dates == {diary[i].date : i \in DOMAIN diary}
    IN  List([p \in 1..Cardinality(dates) |->
                CHOOSE d \in dates : Cardinality({x \in dates : x < d}) = p - 1])

\* sort_values sorts with quicksort, which is free to leave the rows of one
\* date in any order: in the order of the diary, in the opposite order, or
\* with the first row last
TieOrders == {"kept", "reversed", "rotated"}

TieOrder(rows, ties) ==
    IF ties = "kept" \/ Len(rows) < 2 THEN rows
    ELSE IF ties = "rotated" THEN Tail(rows) \o <<Head(rows)>>
    ELSE List([i \in DOMAIN rows |-> rows[Len(rows) + 1 - i]])

RECURSIVE ByDate(_, _, _)
\* the rows of the diary date by date
ByDate(diary, dates, ties) ==
    IF dates = <<>> THEN <<>>
    ELSE TieOrder(SelectSeq(diary, LAMBDA e : e.date = Head(dates)), ties)
         \o ByDate(diary, Tail(dates), ties)

\* diary.sort_values('Watched Date').reset_index(drop=True) (line 933)
SortValues(diary, ties) == ByDate(diary, SortedDates(diary), ties)

\* the entry as the view shows it: title, year and date (the formatting of the
\* date and the poster path are not modelled)
JourneyEntry(entry) == [title |-> entry.key[1], year |-> entry.key[2], date |-> entry.date]

\* milestones that ask for more than num entries
MilestonesPast(diary_sorted) ==
    LET reached == SelectSeq(milestone_numbers, LAMBDA num : Len(diary_sorted) > num)
    IN  List([n \in DOMAIN reached |->
                [number |-> reached[n]] @@ JourneyEntry(diary_sorted[reached[n]])])

\* for num in milestone_numbers: if len(diary_sorted) >= num:
\* entry = diary_sorted.iloc[num - 1] (lines 958-971); the sequence counts from 1
Milestones(diary_sorted) ==
    LET reached == SelectSeq(milestone_numbers, LAMBDA num : Len(diary_sorted) >= num)
    IN  List([n \in DOMAIN reached |->
                [number |-> reached[n]] @@ JourneyEntry(diary_sorted[reached[n]])])

\* the first of the entries of counts that is the largest: idxmax
IdxMax(counts) ==
    CHOOSE p \in DOMAIN counts :
        /\ \A q \in DOMAIN counts : counts[q] <= counts[p]
        /\ \A q \in 1..(p - 1) : counts[q] < counts[p]

RECURSIVE LongestStreakOfAny(_, _, _, _)
\* the loop without the test on the gap: every date prolongs the run
LongestStreakOfAny(dates, i, current_streak, longest_streak) ==
    IF i > Len(dates) THEN longest_streak
    ELSE LongestStreakOfAny(dates, i + 1, current_streak + 1,
                            IF current_streak + 1 > longest_streak THEN current_streak + 1
                            ELSE longest_streak)

RECURSIVE LongestStreak(_, _, _, _)
\* lines 988-996: the longest run of consecutive dates, from dates[i] on
LongestStreak(dates, i, current_streak, longest_streak) ==
    IF i > Len(dates) THEN longest_streak
    ELSE IF dates[i] - dates[i - 1] = 1
         THEN LongestStreak(dates, i + 1, current_streak + 1,
                            IF current_streak + 1 > longest_streak THEN current_streak + 1
                            ELSE longest_streak)
         ELSE LongestStreak(dates, i + 1, 1, longest_streak)

\* datetime.now().date()
Today == Date(CurrentYear, 11, 3)

\* the view of lines 998-1009; a month is kept as year * 12 + month
JourneyView(diary, ties) ==
    LET diary_sorted == SortValues(diary, ties)
        dates == SortedDates(diary)
        daily_counts == List([p \in DOMAIN dates |->
                                Len(SelectSeq(diary, LAMBDA e : e.date = dates[p]))])
        month_of == List([p \in DOMAIN dates |-> YearOf(dates[p]) * 12 + MonthOf(dates[p])])
        firsts == SelectSeq(List([p \in DOMAIN dates |-> p]),
                            LAMBDA p : p = 1 \/ month_of[p - 1] # month_of[p])
        monthly_counts == List([n \in DOMAIN firsts |->
                                  Sum(List(SelectSeq(List([p \in DOMAIN dates |->
                                        IF month_of[p] = month_of[firsts[n]]
                                        THEN daily_counts[p] ELSE 0]), LAMBDA c : c > 0)))])
    IN  [first_film |-> JourneyEntry(diary_sorted[1]),
         recent_film |-> JourneyEntry(diary_sorted[Len(diary_sorted)]),
         milestones |-> Milestones(diary_sorted),
         total_diary_entries |-> Len(diary_sorted),
         max_day |-> dates[IdxMax(daily_counts)],
         max_day_count |-> daily_counts[IdxMax(daily_counts)],
         max_month |-> month_of[firsts[IdxMax(monthly_counts)]],
         max_month_count |-> monthly_counts[IdxMax(monthly_counts)],
         longest_streak |-> LongestStreak(dates, 2, 1, 1),
         days_since_first |-> Today - dates[1]]

\* lines 924-1009: an empty diary leaves the empty dict
_calculate_journey_stats ==
    /\ Turn(10)
    /\ IF letterboxd_data.diary = <<>>
       THEN Set("journey", EmptyMap)
       ELSE \E ties \in TieOrders : Set("journey", JourneyView(letterboxd_data.diary, ties))

\* the view of one crew role, and of the studios: the ten names most mentioned
\* (a person or a company is modelled by its name)
PeopleView(field) ==
    LET mentions == Mentions(tmdb_data, field)
    IN  [top_by_count |-> TopByCount(mentions, 10),
         total_unique |-> Cardinality({mentions[i].k : i \in DOMAIN mentions})]

\* the three roles of crew_roles, one key of self.stats each.  The views of the
\* crew and of the studios are read by no other method; called directly, they
\* are computed here after the journey and before the fun facts
_calculate_crew_stats ==
    /\ Turn(11)
    /\ stats' = Put(Put(Put(stats, "composers", PeopleView("composers")),
                        "cinematographers", PeopleView("cinematographers")),
                    "writers", PeopleView("writers"))
    /\ calc' = [calc EXCEPT !.done = @ + 1, !.raised = "no"]
    /\ UNCHANGED <<letterboxd_data, tmdb_data, rvars, lvars, nvars, ovars>>

_calculate_studio_stats ==
    /\ Turn(12)
    /\ Set("studios", PeopleView("production_companies"))

SetMin(S) == CHOOSE x \in S : \A y \in S : x <= y

SetMax(S) == CHOOSE x \in S : \A y \in S : x >= y

\* self.stats.get(key, default)
StatsGet(key, default) == IF key \in DOMAIN stats THEN stats[key] ELSE default

\* the first of the top actors, or of the top directors, when there is one
TopOf(key) ==
    LET top == IF key \in DOMAIN stats THEN stats[key].top_by_count ELSE <<>>
    IN  IF top = <<>> THEN None ELSE top[1]

\* metadata.get('runtime', 0) of the films of the top actor: the key 'runtime'
\* is in every record, so the value found is the record's, None included
RuntimeOf(key) ==
    LET rows == SelectSeq(tmdb_data, LAMBDA e : e.k = key)
    IN  IF rows = <<>> THEN 0 ELSE rows[1].v.runtime

ActorRuntimes(top_actor) ==
    List([i \in DOMAIN top_actor.films |->
            RuntimeOf(<<top_actor.films[i].title, top_actor.films[i].year>>)])

\* actor_runtime += None raises TypeError
ActorRuntimeRaises ==
    /\ TopOf("actors") # None
    /\ \E i \in DOMAIN ActorRuntimes(TopOf("actors")) : ActorRuntimes(TopOf("actors"))[i] = NoRuntime

\* the years of the watched frame that are valid: year > 1800
ValidYears == {letterboxd_data.watched[i][2] : i \in DOMAIN letterboxd_data.watched} \ (0..1800)

\* the facts, each with the numbers its text is made of (not the rounded
\* decimals of the texts): a fact is in the list when its guard holds
FunFacts ==
    LET runtime == StatsGet("runtime", [total_hours |-> 0])
        top_actor == TopOf("actors")
        top_director == TopOf("directors")
        decades == StatsGet("decades", EmptyMap)
        favorite_decade == IF "favorite_decade" \in DOMAIN decades THEN decades.favorite_decade
                           ELSE None
        actor_runtime == Sum(ActorRuntimes(top_actor))
        diary == letterboxd_data.diary
        years_active == Cardinality({YearOf(diary[i].date) : i \in DOMAIN diary})
    IN  (IF runtime.total_hours > 0
         THEN << [fact |-> "watch_time", total_hours |-> runtime.total_hours] >> ELSE <<>>)
        \o (IF top_actor # None /\ actor_runtime > 0
            THEN << [fact |-> "top_actor", name |-> top_actor.name,
                     minutes |-> actor_runtime, count |-> top_actor.count] >> ELSE <<>>)
        \o (IF top_director # None
            THEN << [fact |-> "top_director", name |-> top_director.name,
                     count |-> top_director.count,
                     liked_count |-> top_director.liked_count] >> ELSE <<>>)
        \o (IF favorite_decade # None
            THEN << [fact |-> "favorite_decade", decade |-> favorite_decade.decade,
                     avg |-> decades.favorite_decade_avg] >> ELSE <<>>)
        \o (IF ValidYears # {}
            THEN << [fact |-> "span", oldest |-> SetMin(ValidYears), newest |-> SetMax(ValidYears),
                     span |-> SetMax(ValidYears) - SetMin(ValidYears)] >>
                 \o << [fact |-> "average_age",
                        ages |-> Sum(List([i \in DOMAIN letterboxd_data.watched |->
                                     IF letterboxd_data.watched[i][2] > 1800
                                     THEN CurrentYear - letterboxd_data.watched[i][2] ELSE 0])),
                        films |-> Len(SelectSeq(letterboxd_data.watched, LAMBDA w : w[2] > 1800))] >>
            ELSE <<>>)
        \o (IF diary # <<>> /\ years_active > 0
            THEN << [fact |-> "per_year", entries |-> Len(diary),
                     years_active |-> years_active] >> ELSE <<>>)

\* the TypeError of line 1068 leaves the method before self.stats['fun_facts']
\* is set
_calculate_fun_facts ==
    /\ Turn(13)
    /\ IF ActorRuntimeRaises
       THEN /\ calc' = [calc EXCEPT !.done = @ + 1, !.raised = "TypeError",
                                    !.pc = IF calc.caller = "calculate_all" THEN "raised"
                                           ELSE "built"]
            /\ UNCHANGED <<stats, letterboxd_data, tmdb_data, rvars, lvars, nvars, ovars>>
       ELSE Set("fun_facts", FunFacts)

\* the diaries of the small inputs: none, one of an earlier year, of the last
\* full year, of the current year, of both; the rating is the one of the diary row
SmallDiaries == {
    <<>>,
    << [key |-> <<1, 1985>>, date |-> Date(CurrentYear - 7, 4, 10), rewatch |-> FALSE, rating |-> 7] >>,
    << [key |-> <<1, 1985>>, date |-> Date(CurrentYear - 1, 1, 10), rewatch |-> FALSE, rating |-> 0],
       [key |-> <<2, 1987>>, date |-> Date(CurrentYear - 1, 1, 11), rewatch |-> TRUE, rating |-> 8] >>,
    << [key |-> <<3, 1994>>, date |-> Date(CurrentYear, 1, 6), rewatch |-> TRUE, rating |-> 10],
       [key |-> <<3, 1994>>, date |-> Date(CurrentYear, 1, 5), rewatch |-> TRUE, rating |-> 9] >>,
    << [key |-> <<4, 1994>>, date |-> Date(CurrentYear, 1, 5), rewatch |-> FALSE, rating |-> 0],
       [key |-> <<1, 1985>>, date |-> Date(CurrentYear - 1, 10, 27), rewatch |-> TRUE, rating |-> 7],
       [key |-> <<1, 1985>>, date |-> Date(CurrentYear - 2, 10, 27), rewatch |-> FALSE, rating |-> 6] >> }

\* the frames of the small inputs: the watched set is not empty; the diary, the
\* ratings, the likes and the watchlist are empty or not
SmallFrames ==
    {[watched |-> SmallWatched, diary |-> d, ratings |-> r,
      liked_films |-> l, watchlist |-> l] :
        d \in SmallDiaries, r \in SmallRatings, l \in {<<>>, << <<1, 1985>>, <<9, 2001>> >>}}

\* the inputs of the decade view: up to MaxDecadeFilms films of the 1980s, ten
\* of the 1990s and one of the 1970s, in either order of the decades; the first
\* n80 films of the 1980s rated 3.5 and 4.5 in turn, the first n90 of the 1990s
\* all rated r90
Films80s == List([i \in 1..MaxDecadeFilms |-> <<10 + i, 1980 + (i % 10)>>])

Films90s == List([i \in 1..10 |-> <<30 + i, 1990 + (i % 10)>>])

DecadeRatings(n80, n90, r90) ==
    List([i \in 1..n80 |-> [key |-> Films80s[i], rating |-> IF i % 2 = 1 THEN 7 ELSE 9]])
    \o List([i \in 1..n90 |-> [key |-> Films90s[i], rating |-> r90]])

DecadeFrames ==
    {[watched |-> w, diary |-> <<>>, ratings |-> r,
      liked_films |-> << <<12, 1982>> >>, watchlist |-> <<>>] :
        w \in {Films80s \o << <<50, 1975>> >> \o Films90s,
               Films90s \o << <<50, 1975>> >> \o Films80s},
        r \in {DecadeRatings(n80, n90, r90) :
                 n80 \in {9, 10, MaxDecadeFilms}, n90 \in {0, 8, 10}, r90 \in {7, 8, 9}}}

\* the inputs of the rewatch view: a diary of n rows over MaxRewatchFilms films
\* in turn, every fifth row a first watch and the others rewatches
RewatchDiary(n) ==
    List([i \in 1..n |->
            [key |-> <<60 + (i % MaxRewatchFilms), 2000 + (i % MaxRewatchFilms)>>,
             date |-> Date(CurrentYear - 2, 1, 1) + i,
             rewatch |-> i % 5 # 0, rating |-> 0]])

RewatchFrames ==
    {[watched |-> SmallWatched, diary |-> RewatchDiary(n), ratings |-> <<>>,
      liked_films |-> l, watchlist |-> <<>>] :
        n \in {5, 10, 30, 40}, l \in {<<>>, << <<61, 2001>> >>}}

\* the inputs of the journey view: diaries of one entry less than a milestone,
\* of exactly a milestone, and of MaxDiaryLen entries, logged in an order that
\* is not the order of the watch dates, over JourneyDays days from 1 December
\* of the last full year, of seven films in turn
JourneyDiary(n) ==
    List([i \in 1..n |->
            [key |-> <<100 + (i % 7), 2010 + (i % 7)>>,
             date |-> Date(CurrentYear - 1, 12, 1) + ((i * 7) % JourneyDays),
             rewatch |-> FALSE, rating |-> 0]])

JourneyLens ==
    {n \in {milestone_numbers[k] - d : k \in DOMAIN milestone_numbers, d \in {0, 1}}
           \cup {MaxDiaryLen} : n <= MaxDiaryLen}

JourneyFrames ==
    {[watched |-> SmallWatched, diary |-> JourneyDiary(n), ratings |-> <<>>,
      liked_films |-> <<>>, watchlist |-> <<>>] : n \in JourneyLens}

\* the inputs of the runtime view: the small store with the runtimes on both
\* sides of every bucket bound, no runtime and runtime 0, given to its films
\* in turn from every starting point, under the small frames without ratings
RuntimeEdges == <<NoRuntime, 0, 89, 90, 119, 120, 149, 150, 179, 180, 185>>

WithRuntimes(store, start) ==
    List([i \in DOMAIN store |->
            [store[i] EXCEPT !.v.runtime = RuntimeEdges[((start + i) % Len(RuntimeEdges)) + 1]]])

RuntimeStores == {WithRuntimes(SmallStore, start) : start \in DOMAIN RuntimeEdges}

RuntimeFrames == {frame \in SmallFrames : frame.ratings = <<>>}

\* the small store iterated the other way round: the films were inserted in the
\* opposite order
Reverse(s) == List([i \in DOMAIN s |-> s[Len(s) + 1 - i]])

\* the inputs of the streak: a diary for every set of days out of StreakDays
\* days from 29 December of the last full year, the latest day first, and a
\* second entry on the latest day
StreakDays == 6

StreakStart == Date(CurrentYear - 1, 12, 29)

StreakDiary(days) ==
    LET all == List([i \in 1..StreakDays |->
                       [key |-> <<1 + (i % 4), 1985>>, date |-> StreakStart + (StreakDays - i),
                        rewatch |-> FALSE, rating |-> 0]])
        picked == SelectSeq(all, LAMBDA entry : (entry.date - StreakStart) \in days)
    IN  picked \o << [picked[1] EXCEPT !.key = <<4, 1994>>, !.rewatch = TRUE] >>

StreakFrames ==
    {[watched |-> SmallWatched, diary |-> StreakDiary(days), ratings |-> <<>>,
      liked_films |-> <<>>, watchlist |-> <<>>] :
        days \in (SUBSET (0..(StreakDays - 1))) \ {{}}}

\* StatsCalculator(letterboxd_data, tmdb_data): the frames, the store, no view
InitStats ==
    /\ letterboxd_data \in SmallFrames \cup DecadeFrames \cup RewatchFrames \cup JourneyFrames
                             \cup StreakFrames
    /\ tmdb_data \in {<<>>, SmallStore}
                     \cup (IF letterboxd_data \in RuntimeFrames
                           THEN RuntimeStores \cup {Reverse(SmallStore)} ELSE {})
    /\ stats = EmptyMap
    /\ calc \in {[pc |-> "built", caller |-> c, done |-> 0, raised |-> "no"] :
                    c \in {"calculate_all", "direct"}}

InitS == ResolverIdle /\ InitLimiter /\ NormIdle /\ InitStats /\ OthersIdle

NextS ==
    \/ _calculate_basic_stats
    \/ _calculate_genre_stats
    \/ _calculate_actor_stats
    \/ _calculate_director_stats
    \/ _calculate_runtime_stats
    \/ _calculate_country_language_stats
    \/ _calculate_yearly_breakdown
    \/ _calculate_rating_distribution
    \/ _calculate_decade_stats
    \/ _calculate_rewatch_stats
    \/ _calculate_journey_stats
    \/ _calculate_crew_stats
    \/ _calculate_studio_stats
    \/ _calculate_fun_facts

SpecS == InitS /\ [][NextS]_vars

(***************************************************************************)
(* The records of the resolver: the list fields of _transform_supabase_row *)
(* and of _tmdb_search.  A text field of a catalog row is a sequence of     *)
(* characters; a person of the fallback service is [name, job]; an actor is *)
(* kept as its name.                                                        *)
(***************************************************************************)
RECURSIVE SplitComma(_)
\* str.split(',')
SplitComma(s) ==
    IF \A i \in DOMAIN s : s[i] # "," THEN <<s>>
    ELSE LET at == CHOOSE i \in DOMAIN s : s[i] = "," /\ \A j \in 1..(i - 1) : s[j] # ","
         IN  <<SubSeq(s, 1, at - 1)>> \o SplitComma(SubSeq(s, at + 1, Len(s)))

RECURSIVE StripAll(_)
\* str.strip()
StripAll(s) ==
    IF s = <<>> THEN s
    ELSE IF IsSpace(Head(s)) THEN StripAll(Tail(s))
    ELSE IF IsSpace(s[Len(s)]) THEN StripAll(SubSeq(s, 1, Len(s) - 1))
    ELSE s

\* [c.strip() for c in text.split(',') if c.strip()]
NamesOf(text) ==
    LET parts == SplitComma(text)
    IN  SelectSeq(List([i \in DOMAIN parts |-> StripAll(parts[i])]), LAMBDA name : name # <<>>)

\* the whole list, whatever the cap
LeadingAll(list, cap) == list

\* list[:cap]
Leading(list, cap) == SubSeq(list, 1, Min(cap, Len(list)))

\* row.get('cast_details') or [], parsed when it is a str (lines 100-105): a
\* list, the JSON text of a list, a text that is not JSON, or nothing
CastDetails(cast_details) ==
    IF cast_details.kind \in {"list", "json"} THEN cast_details.items ELSE <<>>

\* the list fields of the record of a catalog row (lines 106-126)
RowLists(row) ==
    [actors |-> Leading(CastDetails(row.cast_details), 10),
     directors |-> Leading(NamesOf(row.director), 3),
     cinematographers |-> Leading(NamesOf(row.director_of_photography), 2),
     composers |-> Leading(NamesOf(row.music_composer), 2),
     writers |-> Leading(NamesOf(row.writers), 3)]

\* [p['name'] for p in crew if p.get('job') in jobs]
CrewOf(crew, job_names) ==
    LET people == SelectSeq(crew, LAMBDA p : p.job \in job_names)
    IN  List([i \in DOMAIN people |-> people[i].name])

\* the list fields of the record of the fallback service (lines 235-279)
TmdbLists(details) ==
    [actors |-> Leading(details.credits.cast, 10),
     directors |-> Leading(CrewOf(details.credits.crew, {"Director"}), 3),
     cinematographers |-> Leading(CrewOf(details.credits.crew, {"Director of Photography"}), 2),
     composers |-> Leading(CrewOf(details.credits.crew, {"Original Music Composer"}), 2),
     writers |-> Leading(CrewOf(details.credits.crew, {"Screenplay", "Writer"}), 3)]

\* the texts of a crew field of the catalog: names of letters, commas, spaces
CrewTexts == UNION {[1..n -> {"a", "b", ",", " "}] : n \in 0..MaxCrewLen}

\* the cast of a row or of a movie: the actors 1..n
Casts == {List([i \in 1..n |-> i]) : n \in 0..MaxCast}

CatalogRow(text, cast_details) ==
    [cast_details |-> cast_details, director |-> text, director_of_photography |-> text,
     music_composer |-> text, writers |-> text]

\* catalog rows: every text with a cast of MaxCast, and every cast, in each of
\* its forms, with one text
CatalogRows ==
    {CatalogRow(text, [kind |-> "list", items |-> List([i \in 1..MaxCast |-> i])]) :
        text \in CrewTexts}
    \cup {CatalogRow(<<"a", ",", "b">>, [kind |-> kind, items |-> cast]) :
            kind \in {"list", "json", "junk", "null"}, cast \in Casts}

Jobs == {"Director", "Director of Photography", "Original Music Composer",
         "Screenplay", "Writer", "Producer"}

\* the crews of the fallback service: the people 1..n, each with one of the jobs
Crews == UNION {{List([i \in 1..n |-> [name |-> i, job |-> of[i]]]) : of \in [1..n -> Jobs]} :
                    n \in 0..MaxCrew}

TmdbDetails ==
    {[credits |-> [cast |-> List([i \in 1..MaxCast |-> i]), crew |-> crew]] : crew \in Crews}
    \cup {[credits |-> [cast |-> cast, crew |-> <<>>]] : cast \in Casts}

InitTransform ==
    transform \in {[pc |-> "row", source |-> row] : row \in CatalogRows}
                  \cup {[pc |-> "details", source |-> details] : details \in TmdbDetails}

\* _transform_supabase_row(row)
TransformRow ==
    /\ transform.pc = "row"
    /\ transform' = [pc |-> "catalog", source |-> transform.source,
                     record |-> RowLists(transform.source)]
    /\ UNCHANGED <<rvars, lvars, nvars, svars, jvars, cvars>>

\* _tmdb_search, from the details on
TransformDetails ==
    /\ transform.pc = "details"
    /\ transform' = [pc |-> "fallback", source |-> transform.source,
                     record |-> TmdbLists(transform.source)]
    /\ UNCHANGED <<rvars, lvars, nvars, svars, jvars, cvars>>

InitT ==
    ResolverIdle /\ InitLimiter /\ NormIdle /\ StatsIdle /\ InitTransform /\ JobsIdle /\ CacheIdle

NextT == TransformRow \/ TransformDetails

SpecT == InitT /\ [][NextT]_vars

(***************************************************************************)
(* The jobs: routes/upload.py puts a JobState in workers.jobs and submits  *)
(* _run_pipeline to the executor; the pipeline thread assigns the fields of *)
(* the job one statement at a time while the endpoints of routes/download   *)
(* read them from the event loop.  The steps of the pipeline are calls that *)
(* return or raise; what they compute is not modelled here.  (With the      *)
(* calculator of this source calculate_all raises on every input, see C11:  *)
(* the runs below in which it returns are those of the worker as written.)  *)
(***************************************************************************)
MaxJobs == 1

MaxBatches == 1

max_workers == 2

JOB_EXPIRY_MINUTES == 60

\* asyncio.sleep(300), in minutes
CleanupPeriod == 5

MaxNow == 70

JobIds == 1..MaxJobs

\* JobState.__init__; None is "None"
JobState ==
    [status |-> "pending", percent |-> 0, error |-> "None",
     stats_json |-> "None", charts_json |-> "None", html |-> "None"]

\* job.field = value, the attribute made if the job has none of the name
SetAttr(job, field, value) ==
    [a \in DOMAIN job \cup {field} |-> IF a = field THEN value ELSE job[a]]

\* on_load_progress: int(5 + pct * 0.15), pct in tenths
OnLoadProgress(pct10) == 5 + (15 * pct10) \div 1000

\* the callback without the mapping of 0-100 to 20-70
OnEnrichProgressRaw(num, den) == num \div den

\* on_enrich_progress: int(20 + pct * 0.5), pct = num / den
OnEnrichProgress(num, den) == 20 + num \div (2 * den)

Stmt(field, value) == [field |-> field, value |-> value]

\* lines 27-36: the status, 5, the six reports of load_all_data (0.0 to 1.0), 20
LoadStatements ==
    <<Stmt("status", "loading"), Stmt("percent", 5)>>
    \o List([i \in 1..6 |-> Stmt("percent", OnLoadProgress(2 * (i - 1)))])
    \o <<Stmt("percent", 20)>>

\* lines 39-53: the status, the reports of enrich_films (0, the batches done
\* out of total_batches times 60, 70, 98; TMDB_FALLBACK_ENABLED is False, so
\* no report of the fallback), the list of the missing films, 70
EnrichStatements(total_batches) ==
    <<Stmt("status", "enriching"), Stmt("percent", OnEnrichProgress(0, 1))>>
    \o List([c \in 1..total_batches |->
               Stmt("percent", OnEnrichProgress(c * 60, total_batches))])
    \o <<Stmt("percent", OnEnrichProgress(70, 1)), Stmt("percent", OnEnrichProgress(98, 1)),
         Stmt("tmdb_fallback_films", "json"), Stmt("percent", 70)>>

\* lines 56-69
CalculateStatements ==
    <<Stmt("status", "calculating"), Stmt("percent", 75), Stmt("percent", 85)>>

\* lines 72-76
ChartStatements == <<Stmt("percent", 87), Stmt("percent", 90)>>

\* lines 79-81
HtmlStatements == <<Stmt("status", "generating"), Stmt("percent", 95)>>

\* the results stored after the status is set
StoreStatementsLate ==
    <<Stmt("status", "complete"), Stmt("stats_json", "json"), Stmt("charts_json", "json"),
      Stmt("html", "html"), Stmt("percent", 100)>>

\* lines 86-92
StoreStatements ==
    <<Stmt("stats_json", "json"), Stmt("charts_json", "json"), Stmt("html", "html"),
      Stmt("status", "complete"), Stmt("percent", 100)>>

\* the handler that records the error and leaves the status alone
ExceptStatementsSilent == <<Stmt("error", "str(e)")>>

\* lines 94-96
ExceptStatements == <<Stmt("status", "error"), Stmt("error", "str(e)")>>

\* the call that comes next in the pipeline may raise: after k statements of the
\* phase, _load_csv of a required file or _preprocess_data; SupabaseEnricher,
\* enrich_films and json.dumps of the missing films; StatsCalculator and
\* calculate_all; the chart generator; the HTML generator and json.dumps
MayRaise(p) ==
    \/ p.at = "load" /\ p.k \in {3, 4, 5, 6, 7}
    \/ p.at = "enrich" /\ p.k \in 1..(Len(EnrichStatements(p.total_batches)) - 2)
    \/ p.at = "calculate" /\ p.k = 2
    \/ p.at = "charts" /\ p.k = 1
    \/ p.at = "store" /\ p.k \in {0, 1}

\* with no title to look up, ThreadPoolExecutor(max_workers=min(5, 0)) raises
\* ValueError after the first report (lines 316-323)
MustRaise(p) == p.at = "enrich" /\ p.total_batches = 0 /\ p.k = 2

\* the statement that comes next in the phase; after the last the thread goes on to the next phase
Execute(j, statements, next_phase) ==
    LET p == pipeline[j]
        s == statements[p.k + 1]
    IN  /\ jobs' = [jobs EXCEPT ![j] = SetAttr(@, s.field, s.value)]
        /\ pipeline' = [pipeline EXCEPT ![j] =
                          IF p.k + 1 = Len(statements) THEN [@ EXCEPT !.at = next_phase, !.k = 0]
                          ELSE [@ EXCEPT !.k = p.k + 1]]
        /\ UNCHANGED <<request, utcnow, cleanup, rvars, lvars, nvars, svars, transform, cvars>>

\* upload_zip, from the creation of the job on: a fresh id, the job in the
\* table, the pipeline submitted.  The jobs are uploaded before the first
\* tick of the clock; total_batches is the number of batches of titles of
\* the upload
upload_zip ==
    \E j \in JobIds, total_batches \in 0..MaxBatches :
        /\ utcnow = 0
        /\ j \notin DOMAIN jobs /\ \A i \in 1..(j - 1) : i \in DOMAIN jobs
        /\ jobs' = Put(jobs, j, JobState)
        /\ pipeline' = Put(pipeline, j, [at |-> "queued", k |-> 0, total_batches |-> total_batches])
        /\ UNCHANGED <<request, utcnow, cleanup, rvars, lvars, nvars, svars, transform, cvars>>

\* a thread of the executor takes the job
_run_pipeline ==
    \E j \in DOMAIN pipeline :
        /\ pipeline[j].at = "queued"
        /\ Cardinality({i \in DOMAIN pipeline : pipeline[i].at \notin {"queued", "done"}}) < max_workers
        /\ pipeline' = [pipeline EXCEPT ![j].at = "load"]
        /\ UNCHANGED <<jobs, request, utcnow, cleanup, rvars, lvars, nvars, svars, transform, cvars>>

LoadData ==
    \E j \in DOMAIN pipeline :
        /\ pipeline[j].at = "load"
        /\ Execute(j, LoadStatements, "enrich")

EnrichFilms ==
    \E j \in DOMAIN pipeline :
        /\ pipeline[j].at = "enrich" /\ ~MustRaise(pipeline[j])
        /\ Execute(j, EnrichStatements(pipeline[j].total_batches), "calculate")

CalculateStats ==
    \E j \in DOMAIN pipeline :
        /\ pipeline[j].at = "calculate"
        /\ Execute(j, CalculateStatements, "charts")

GenerateCharts ==
    \E j \in DOMAIN pipeline :
        /\ pipeline[j].at = "charts"
        /\ Execute(j, ChartStatements, "html")

GenerateHtml ==
    \E j \in DOMAIN pipeline :
        /\ pipeline[j].at = "html"
        /\ Execute(j, HtmlStatements, "store")

StoreResults ==
    \E j \in DOMAIN pipeline :
        /\ pipeline[j].at = "store"
        /\ Execute(j, StoreStatements, "finally")

\* a call of the try block raises an Exception: the thread is in the handler
Raise ==
    \E j \in DOMAIN pipeline :
        /\ MayRaise(pipeline[j])
        /\ pipeline' = [pipeline EXCEPT ![j] = [@ EXCEPT !.at = "except", !.k = 0]]
        /\ UNCHANGED <<jobs, request, utcnow, cleanup, rvars, lvars, nvars, svars, transform, cvars>>

Except ==
    \E j \in DOMAIN pipeline :
        /\ pipeline[j].at = "except"
        /\ Execute(j, ExceptStatements, "finally")

\* finally: shutil.rmtree(job.data_dir, ignore_errors=True), and the thread is free
Finally ==
    \E j \in DOMAIN pipeline :
        /\ pipeline[j].at = "finally"
        /\ pipeline' = [pipeline EXCEPT ![j].at = "done"]
        /\ UNCHANGED <<jobs, request, utcnow, cleanup, rvars, lvars, nvars, svars, transform, cvars>>

\* some step of the pipeline of job j
PipelineStep(j) ==
    /\ j \in DOMAIN pipeline
    /\ \/ _run_pipeline \/ LoadData \/ EnrichFilms \/ CalculateStats \/ GenerateCharts
       \/ GenerateHtml \/ StoreResults \/ Raise \/ Except \/ Finally
    /\ pipeline'[j] # pipeline[j]

\* the endpoints of routes/download.py, read by read: the job id is looked up
\* (404), the status is compared with ERROR (500; not by the endpoints of the
\* missing films), then with COMPLETE (400), then the results are read
Respond(code, data) ==
    request' = [pc |-> "replied", endpoint |-> request.endpoint, job_id |-> request.job_id,
                code |-> code, data |-> data]

ResultEndpoint(endpoint, checks_error, fields) ==
    /\ \/ /\ request.pc \in {"idle", "replied"}
          /\ \E j \in JobIds : request' = [pc |-> "called", endpoint |-> endpoint, job_id |-> j]
       \/ /\ request.pc = "called" /\ request.endpoint = endpoint
          /\ IF request.job_id \notin DOMAIN jobs THEN Respond(404, <<>>)
             ELSE IF checks_error /\ jobs[request.job_id].status = "error"
                  THEN Respond(500, <<>>)
                  ELSE request' = [request EXCEPT !.pc = "not_error"]
       \/ /\ request.pc = "not_error" /\ request.endpoint = endpoint
          /\ IF jobs[request.job_id].status # "complete" THEN Respond(400, <<>>)
             ELSE request' = [request EXCEPT !.pc = "complete"]
       \/ /\ request.pc = "complete" /\ request.endpoint = endpoint
          /\ IF \E i \in DOMAIN fields : fields[i] \notin DOMAIN jobs[request.job_id]
             THEN Respond(500, <<>>)
             ELSE Respond(200, List([i \in DOMAIN fields |-> jobs[request.job_id][fields[i]]]))
    /\ UNCHANGED <<jobs, pipeline, utcnow, cleanup, rvars, lvars, nvars, svars, transform, cvars>>

get_result_json ==
    /\ ResultEndpoint("json", TRUE, <<"stats_json", "charts_json">>)

get_result_html ==
    /\ ResultEndpoint("html", TRUE, <<"html">>)

\* get_missing_films and get_missing_films_csv
get_missing_films ==
    /\ \E endpoint \in {"missing", "missing/csv"} :
          ResultEndpoint(endpoint, FALSE, <<"tmdb_fallback_films">>)

\* five minutes pass
TickClock ==
    /\ utcnow + CleanupPeriod <= MaxNow
    /\ utcnow' = utcnow + CleanupPeriod
    /\ UNCHANGED <<jobs, pipeline, request, cleanup, rvars, lvars, nvars, svars, transform, cvars>>

\* one round of cleanup_old_jobs after its sleep: the comprehension reads
\* job.created_at of each job whose status is COMPLETE or ERROR, and JobState
\* has no such attribute (models.py:19-28): AttributeError, and the coroutine
\* ends.  With no such job, expired is empty and nothing is deleted
cleanup_old_jobs ==
    /\ cleanup.pc = "sleeping" /\ utcnow >= cleanup.wake
    /\ IF \E j \in DOMAIN jobs : jobs[j].status \in {"complete", "error"}
       THEN cleanup' = [pc |-> "raised", wake |-> cleanup.wake]
       ELSE cleanup' = [pc |-> "sleeping", wake |-> utcnow + CleanupPeriod]
    /\ UNCHANGED <<jobs, pipeline, request, utcnow, rvars, lvars, nvars, svars, transform, cvars>>

\* the process after startup: main.py starts no cleanup task
InitJobs ==
    /\ jobs = <<>> /\ pipeline = <<>> /\ request = [pc |-> "idle"] /\ utcnow = 0
    /\ cleanup = [pc |-> "unscheduled", wake |-> 0]

\* the same, or with cleanup_old_jobs started by a caller
InitCleanup ==
    /\ jobs = <<>> /\ pipeline = <<>> /\ request = [pc |-> "idle"] /\ utcnow = 0
    /\ cleanup \in {[pc |-> "unscheduled", wake |-> 0], [pc |-> "sleeping", wake |-> CleanupPeriod]}

PipelineNext ==
    \/ upload_zip
    \/ _run_pipeline
    \/ LoadData
    \/ EnrichFilms
    \/ CalculateStats
    \/ GenerateCharts
    \/ GenerateHtml
    \/ StoreResults
    \/ Raise
    \/ Except
    \/ Finally

InitJ ==
    ResolverIdle /\ InitLimiter /\ NormIdle /\ StatsIdle /\ TransformIdle /\ InitJobs /\ CacheIdle

NextJ ==
    \/ PipelineNext
    \/ get_result_json
    \/ get_result_html
    \/ get_missing_films

SpecJ == InitJ /\ [][NextJ]_vars

\* the executor runs its threads: a pipeline that can take a step takes one
SpecJF == SpecJ /\ \A j \in JobIds : WF_vars(PipelineStep(j))

InitK ==
    ResolverIdle /\ InitLimiter /\ NormIdle /\ StatsIdle /\ TransformIdle /\ InitCleanup /\ CacheIdle

NextK ==
    \/ PipelineNext
    \/ TickClock
    \/ cleanup_old_jobs

SpecK == InitK /\ [][NextK]_vars

\* the threads run, time passes, and the event loop wakes the coroutine
SpecKF ==
    /\ SpecK
    /\ \A j \in JobIds : WF_vars(PipelineStep(j))
    /\ WF_vars(TickClock)
    /\ WF_vars(cleanup_old_jobs)

(***************************************************************************)
(* The TMDBCache of app/cache.py, used by several threads.  A thread that   *)
(* changes the cache puts an entry in the dict of get_data() and calls       *)
(* mark_dirty; save is called by mark_dirty, by force_save and at shutdown.  *)
(* save holds self._lock; mark_dirty and force_save assign self._dirty and   *)
(* self._new_entries without it.  Each read and each assignment of an        *)
(* attribute is one step of its thread.                                      *)
(***************************************************************************)
NumCacheThreads == 2

MaxEntries == 2

\* mark_dirty saves at 50 new entries
AutoSaveEntries == 50

CacheThreads == 1..NumCacheThreads

\* TMDBCache.__init__ with no cache file, and the threads outside the cache
InitCache ==
    /\ cache = [data |-> {}, dirty |-> FALSE, new_entries |-> 0, lock |-> 0]
    /\ disk = {}
    /\ threads = [t \in CacheThreads |-> [pc |-> "idle", entry |-> 0, read |-> 0]]
    /\ marked = [flagged |-> {}, counted |-> {}]

At(t, place) == threads[t].pc = place

Goto(t, place) == threads' = [threads EXCEPT ![t].pc = place]

NotJobsNorOthers == UNCHANGED <<rvars, lvars, nvars, svars, transform, jvars>>

\* the caller puts a new entry in the dict of get_data(), then calls
\* mark_dirty(1) (main.py:59-61)
StoreEntry ==
    \E t \in CacheThreads :
        /\ At(t, "idle") /\ Cardinality(cache.data) < MaxEntries
        /\ cache' = [cache EXCEPT !.data = @ \cup {Cardinality(@) + 1}]
        /\ threads' = [threads EXCEPT ![t] = [pc |-> "mark_dirty",
                                               entry |-> Cardinality(cache.data) + 1, read |-> 0]]
        /\ UNCHANGED <<disk, marked>> /\ NotJobsNorOthers

\* mark_dirty: self._dirty = True; self._new_entries += new_count, a read and
\* then a write; the test of the auto-save, in which the time since the last
\* save is over 120 s or not
mark_dirty ==
    \E t \in CacheThreads :
        /\ \/ /\ At(t, "mark_dirty")
              /\ cache' = [cache EXCEPT !.dirty = TRUE]
              /\ marked' = [marked EXCEPT !.flagged = @ \cup {threads[t].entry}]
              /\ Goto(t, "count_read")
           \/ /\ At(t, "count_read")
              /\ threads' = [threads EXCEPT ![t] = [@ EXCEPT !.pc = "count_write",
                                                          !.read = cache.new_entries]]
              /\ UNCHANGED <<cache, marked>>
           \/ /\ At(t, "count_write")
              /\ cache' = [cache EXCEPT !.new_entries = threads[t].read + 1]
              /\ marked' = [marked EXCEPT !.counted = @ \cup {threads[t].entry}]
              /\ Goto(t, "auto_save")
           \/ /\ At(t, "auto_save")
              /\ \E elapsed \in BOOLEAN :
                    Goto(t, IF cache.new_entries >= AutoSaveEntries \/ elapsed THEN "save" ELSE "idle")
              /\ UNCHANGED <<cache, marked>>
        /\ UNCHANGED disk /\ NotJobsNorOthers

\* force_save: self._dirty = True, then save
force_save ==
    \E t \in CacheThreads :
        /\ At(t, "idle")
        /\ cache' = [cache EXCEPT !.dirty = TRUE]
        /\ Goto(t, "save")
        /\ UNCHANGED <<disk, marked>> /\ NotJobsNorOthers

\* save, also called at shutdown: with self._lock; return if not dirty; the
\* dump of the dict to the file, which may raise; then the flag, the counter
\* and the release of the lock
save ==
    \E t \in CacheThreads :
        /\ \/ /\ At(t, "idle") /\ Goto(t, "save") /\ UNCHANGED <<cache, disk>>
           \/ /\ At(t, "save") /\ cache.lock = 0
              /\ cache' = [cache EXCEPT !.lock = t]
              /\ Goto(t, "test_dirty") /\ UNCHANGED disk
           \/ /\ At(t, "test_dirty")
              /\ IF cache.dirty THEN Goto(t, "dump") /\ UNCHANGED cache
                 ELSE Goto(t, "idle") /\ cache' = [cache EXCEPT !.lock = 0]
              /\ UNCHANGED disk
           \/ /\ At(t, "dump")
              /\ \/ disk' = cache.data /\ Goto(t, "clear_dirty") /\ UNCHANGED cache
                 \/ UNCHANGED disk /\ Goto(t, "idle") /\ cache' = [cache EXCEPT !.lock = 0]
           \/ /\ At(t, "clear_dirty")
              /\ cache' = [cache EXCEPT !.dirty = FALSE]
              /\ Goto(t, "clear_count") /\ UNCHANGED disk
           \/ /\ At(t, "clear_count")
              /\ cache' = [cache EXCEPT !.new_entries = 0, !.lock = 0]
              /\ Goto(t, "idle") /\ UNCHANGED disk
        /\ UNCHANGED marked /\ NotJobsNorOthers

InitC ==
    ResolverIdle /\ InitLimiter /\ NormIdle /\ StatsIdle /\ TransformIdle /\ JobsIdle /\ InitCache

NextC ==
    \/ StoreEntry
    \/ mark_dirty
    \/ force_save
    \/ save

SpecC == InitC /\ [][NextC]_vars

\* The properties follow, one section per claim.

(***************************************************************************)
(* C1                                                                      *)
(***************************************************************************)
\* the requests let through in the window of RateWindow seconds that opens
\* with the i-th request
InWindowFrom(i) ==
    {j \in DOMAIN admitted : admitted[i] <= admitted[j] /\ admitted[j] - admitted[i] < RateWindow}

\* C1: under any interleaving of the workers, the number of requests the rate
\* limiter lets through within any rolling window of 10 seconds never exceeds
\* the configured quota
C1_QuotaPerRollingWindow ==
    \A i \in DOMAIN admitted : Cardinality(InWindowFrom(i)) <= TMDB_RATE_LIMIT

(***************************************************************************)
(* C2                                                                      *)
(***************************************************************************)
\* C2: for every key enrich_films resolves, by any of the passes 1 to 5, the
\* year of the matched candidate is within 2 of the requested year
C2_ResolvedYearWithinWindow ==
    \A k \in DOMAIN provenance : Abs(provenance[k].row.year - k[2]) <= YearWindow

(***************************************************************************)
(* C3                                                                      *)
(***************************************************************************)
\* the records of the list of unresolved films that carry the key k
Listed(k) ==
    {j \in DOMAIN fallback_films : fallback_films[j].title = k[1] /\ fallback_films[j].year = k[2]}

\* C3: when enrich_films has finished, every key of the input (year 0 and
\* repeated rows included) is either in the returned mapping or listed exactly
\* once in the list of unresolved films, never absent from both, never listed twice
C3_ExactlyOneOutcome ==
    pc = "done" =>
        \A i \in DOMAIN films :
            /\ Cardinality(Listed(films[i])) <= 1
            /\ (films[i] \in DOMAIN enriched \/ Cardinality(Listed(films[i])) = 1)

(***************************************************************************)
(* C4                                                                      *)
(***************************************************************************)
\* C4: resolution is monotonic over the passes 1 to 5: no step takes a key out
\* of the mapping or changes the record (and the pass) a key was resolved with,
\* and a pass that begins after pass 1 examines only keys not yet resolved
C4_Monotonic ==
    [][ /\ \A k \in DOMAIN enriched :
              /\ k \in DOMAIN enriched'
              /\ enriched'[k] = enriched[k]
              /\ provenance'[k] = provenance[k]
        /\ (pc' # pc /\ pc' \in {"pass3", "pass4", "pass4q", "pass5q"})
              => examined' \cap DOMAIN enriched = {} ]_vars

\* a run that has ended with one key resolved by pass 1 and another by pass 5,
\* after the passes between them had examined the second
C4_Witness ==
    /\ pc = "done"
    /\ \E k1, k5 \in DOMAIN provenance :
          /\ provenance[k1].pass = 1
          /\ provenance[k5].pass = 5
          /\ k5 \in examined

(***************************************************************************)
(* C5                                                                      *)
(***************************************************************************)
\* the candidate's normalized title is the requested one, or continues it
\* after a space
AtWordBoundary(norm_row, norm_title) ==
    \/ norm_row = norm_title
    \/ /\ StartsWith(norm_row, norm_title)
       /\ Len(norm_row) > Len(norm_title)
       /\ norm_row[Len(norm_title) + 1] = " "

\* C5: a candidate accepted by pass 3 or pass 4 has a normalized title equal to
\* the requested normalized title, or starting with it followed by a space; a
\* title that merely continues the requested one is never matched
C5_PrefixAtWordBoundary ==
    \A k \in DOMAIN provenance :
        provenance[k].pass \in {3, 4} =>
            AtWordBoundary(Norm(provenance[k].row.title), Norm(k[1]))

\* pass 4 has matched a longer title at a word boundary although the reply
\* offered, earlier and within the year window, a title that continues the
\* requested one without a boundary; and pass 3 has matched a longer title too
C5_Witness ==
    /\ \E k \in DOMAIN provenance :
          /\ provenance[k].pass = 4
          /\ Norm(provenance[k].row.title) # Norm(k[1])
          /\ \E r \in Range(prefix_results[PrefixOf(k[1])]) :
                /\ InWindow(r, k[2])
                /\ StartsWith(Norm(r.title), Norm(k[1]))
                /\ ~AtWordBoundary(Norm(r.title), Norm(k[1]))
    /\ \E k \in DOMAIN provenance :
          /\ provenance[k].pass = 3
          /\ Norm(provenance[k].row.title) # Norm(k[1])

(***************************************************************************)
(* C6                                                                      *)
(***************************************************************************)
CatalogCalls == {c \in issued : c[1] \in {"batch", "ilike"}}

C7_YearZeroReturnsEmpty ==
    /\ \A k \in DOMAIN enriched : k[2] # 0
    /\ (pc # "start" /\ \A i \in DOMAIN films : films[i][2] = 0) =>
          /\ pc # "raised"
          /\ issued = {}
          /\ enriched = EmptyMap

(***************************************************************************)
(* C8                                                                      *)
(***************************************************************************)
CatalogResolved(k) == k \in DOMAIN provenance /\ provenance[k].pass \in 1..4

\* C8: the report of unresolved films holds a record for every requested key
\* that no catalog pass resolved and for no key that a catalog pass resolved,
\* and the tmdb_found flag of a record says whether the fallback pass put the
\* key into the returned mapping
C8_ReportOfUnresolved ==
    pc = "done" =>
        /\ \A i \in DOMAIN films : ~CatalogResolved(films[i]) => Listed(films[i]) # {}
        /\ \A j \in DOMAIN fallback_films :
              LET k == Key(fallback_films[j].title, fallback_films[j].year)
              IN  /\ ~CatalogResolved(k)
                  /\ fallback_films[j].tmdb_found
                        <=> (k \in DOMAIN provenance /\ provenance[k].pass = 5)

(***************************************************************************)
(* C9                                                                      *)
(***************************************************************************)
RECURSIVE FallbackInOrder(_, _)
\* pass 5 done one film after the other, in the order of tmdb_needed
FallbackInOrder(list, enr) ==
    IF list = <<>> THEN enr
    ELSE LET result == _tmdb_search(Head(list)[1], Head(list)[2], tmdb_up)
         IN  FallbackInOrder(Tail(list),
                             IF result # None THEN Put(enr, Head(list), result) ELSE enr)

\* enrich_films with every pool replaced by a loop in submission order, the
\* same calls failing: the returned mapping and the list of unresolved films
InSubmissionOrder ==
    LET results == [i \in DOMAIN batches |->
                        _query_supabase_batch(batches[i], <<"batch", i>> \notin failed)]
        sres    == MergeBatches(results, <<>>)
        a1      == Pass1(film_list, sres, Acc(EmptyMap, EmptyMap, <<>>, EmptyMap))
        a2      == Pass2(a1.needed, NormalizedLookup(sres, <<>>),
                         Acc(a1.enr, a1.prov, <<>>, a1.reasons))
        a3      == Pass3(a2.needed, NormEntries(sres), Acc(a2.enr, a2.prov, <<>>, a2.reasons))
        groups  == GroupByPrefix(a3.needed, <<>>)
        replies == [p \in {groups[i].k : i \in DOMAIN groups} |->
                        _query_supabase_ilike(p, <<"ilike", p>> \notin failed)]
        a4      == Pass4(groups, replies,
                         Acc(a3.enr, a3.prov, NoPrefixFilms(a3.needed), a3.reasons))
        final   == IF fallback_enabled THEN FallbackInOrder(a4.needed, a4.enr) ELSE a4.enr
    IN  [enriched |-> final,
         report   |-> [i \in DOMAIN a4.needed |-> MissRecord(a4.needed[i], final, a4.reasons)]]

\* C9: whatever the order in which the workers of pass 0, pass 4 and pass 5
\* complete, the returned mapping and the list of unresolved films are those
\* of the run that handles the submissions one after the other
C9_CompletionOrderIrrelevant ==
    pc = "done" =>
        LET expected == InSubmissionOrder
        IN  /\ enriched = expected.enriched
            /\ fallback_films = expected.report

\* a finished run in which a worker completed before one submitted earlier,
\* with a key resolved by the live prefix query and a film reported
C9_Witness ==
    /\ pc = "done"
    /\ out_of_order
    /\ Len(prefix_to_films) > 1
    /\ \E k \in DOMAIN provenance : provenance[k].pass = 4
    /\ fallback_films # <<>>

(***************************************************************************)
(* C10                                                                     *)
(***************************************************************************)
\* C10: the only object two workers of a pass both write is the ledger of
\* request times, and every write to it is made holding the lock
C10_OnlyLedgerSharedAndLocked ==
    \A a, b \in writes :
        (a.by # b.by /\ a.obj = b.obj) =>
            /\ a.obj = "_request_times"
            /\ a.locked /\ b.locked

(***************************************************************************)
(* C19                                                                     *)
(***************************************************************************)
\* the rows the catalog returned under exactly this title
ExactRows(title) == DictGet(supabase_results, title)

RowOrders(rows) ==
    LET n == Len(rows)
    IN  {[i \in 1..n |-> rows[p[i]]] :
            p \in {q \in [1..n -> 1..n] : \A i, j \in 1..n : i # j => q[i] # q[j]}}

\* enrich_films on the rows given, the distinct titles batched in the order
\* given, every call of the catalog answered: the returned mapping
EnrichedWith(rows, order) ==
    LET list    == CollectFilms(rows)
        bs      == MakeBatches(order)
        results == [i \in DOMAIN bs |-> _query_supabase_batch(bs[i], TRUE)]
        sres    == MergeBatches(results, <<>>)
        a1      == Pass1(list, sres, Acc(EmptyMap, EmptyMap, <<>>, EmptyMap))
        a2      == Pass2(a1.needed, NormalizedLookup(sres, <<>>),
                         Acc(a1.enr, a1.prov, <<>>, a1.reasons))
        a3      == Pass3(a2.needed, NormEntries(sres), Acc(a2.enr, a2.prov, <<>>, a2.reasons))
        groups  == GroupByPrefix(a3.needed, <<>>)
        replies == [p \in {groups[i].k : i \in DOMAIN groups} |-> _query_supabase_ilike(p, TRUE)]
        a4      == Pass4(groups, replies,
                         Acc(a3.enr, a3.prov, NoPrefixFilms(a3.needed), a3.reasons))
    IN  IF fallback_enabled THEN FallbackInOrder(a4.needed, a4.enr) ELSE a4.enr

\* C20: for fixed input films and fixed replies of the catalog (every call
\* answered), the record matched to each key is the same whatever the order of
\* the input rows and whatever the order in which the distinct titles are
\* placed into batches
C20_InputOrderIrrelevant ==
    (pc = "done" /\ failed \cap CatalogCalls = {}) =>
        \A rows \in RowOrders(films) :
            \A order \in TitleOrders(CollectFilms(rows)) :
                EnrichedWith(rows, order) = enriched

(***************************************************************************)
(* C14                                                                     *)
(***************************************************************************)
\* C14: _normalize_title is idempotent: normalizing a normalized title returns
\* it unchanged, for every title
C14_Idempotent ==
    norm.pc = "twice" => norm.twice = norm.once

(***************************************************************************)
(* C11: given an empty enrichment store and a non-empty watched set,       *)
(* calculate_all raises nothing and leaves no view out: once the turn of a  *)
(* view has passed, its key is in the result.  Checked for 'geography', the *)
(* sixth view computed.                                                     *)
(***************************************************************************)
C11_TotalOnEmptyStore ==
    (calc.caller = "calculate_all" /\ tmdb_data = <<>> /\ letterboxd_data.watched # <<>>)
        => /\ calc.raised = "no"
           /\ calc.done >= 6 => "geography" \in DOMAIN stats

(***************************************************************************)
(* C15: an entity is in a favorites list only if at least 3 (genres,       *)
(* actors) or 2 (directors) of its watched films are rated; an entity with  *)
(* no rated film is in no favorites list, and the top-by-count list (which  *)
(* holds every entity of the inputs) still counts it, with average rating 0.*)
(***************************************************************************)
\* the watched films of the store that mention the entity, and the rated ones
EntityFilms(field, name) ==
    {i \in DOMAIN tmdb_data : tmdb_data[i].k \in watched_set
                              /\ name \in Range(tmdb_data[i].v[field])}

RatedEntityFilms(field, name) ==
    {i \in EntityFilms(field, name) : _get_film_rating(tmdb_data[i].k) > 0}

Entities(field) ==
    UNION {Range(tmdb_data[i].v[field]) : i \in {j \in DOMAIN tmdb_data : tmdb_data[j].k \in watched_set}}

FavoriteNames(view) == {f.name : f \in Range(stats[view].favorites)}

MinRatedFilms(view) == IF view = "directors" THEN 2 ELSE 3

C13_BothYearsAlways ==
    Turn(7) =>
        LET view == stats["yearly_breakdown"]
        IN  /\ {"last_full_year", "current_year"} \subseteq DOMAIN view
            /\ YearDiary(CurrentYear - 1) = <<>> => view["last_full_year"] = _empty_year_stats
            /\ YearDiary(CurrentYear) = <<>> => view["current_year"] = _empty_year_stats

(***************************************************************************)
(* C12: for every ratings frame, the empty one included, the               *)
(* rating_distribution view holds exactly the ten half-star buckets 0.5 to  *)
(* 5.0, each with the number of films rated at that level, and the counts   *)
(* add up to the number of rated films.                                     *)
(***************************************************************************)
C12_TenBucketsAlways ==
    Turn(8) =>
        LET view == stats["rating_distribution"]
        IN  /\ Len(view) = 10
            /\ \A r \in 1..10 :
                  /\ view[r].rating = r
                  /\ view[r].count = Cardinality({i \in DOMAIN letterboxd_data.ratings :
                                                    letterboxd_data.ratings[i].rating = r})
            /\ Sum(List([r \in 1..10 |-> view[r].count])) = Len(letterboxd_data.ratings)

(***************************************************************************)
(* C16: favorite_decade is a decade with at least 10 rated films whose     *)
(* average rating no other such decade exceeds, and it is null exactly when *)
(* no decade has 10 rated films; a decade with fewer is never chosen,       *)
(* whatever its average.                                                    *)
(***************************************************************************)
\* the ratings of the watched films of a decade that are rated, film by film
DecadeRatingsOf(decade) ==
    LET rows == SelectSeq(letterboxd_data.watched,
                          LAMBDA key : (key[2] \div 10) * 10 = decade /\ _get_film_rating(key) > 0)
    IN  List([i \in DOMAIN rows |-> _get_film_rating(rows[i])])

WatchedDecades == {(letterboxd_data.watched[i][2] \div 10) * 10 : i \in DOMAIN letterboxd_data.watched}

EligibleDecades == {d \in WatchedDecades : Len(DecadeRatingsOf(d)) >= 10}

C16_FavoriteDecade ==
    Turn(9) =>
        LET favorite == stats["decades"].favorite_decade
        IN  /\ favorite = None <=> EligibleDecades = {}
            /\ favorite # None =>
                  /\ favorite.decade \in EligibleDecades
                  /\ \A d \in EligibleDecades :
                        Sum(DecadeRatingsOf(favorite.decade)) * Len(DecadeRatingsOf(d))
                            >= Sum(DecadeRatingsOf(d)) * Len(DecadeRatingsOf(favorite.decade))

\* twelve films of the 1980s average 4.0, eight of the 1990s average 4.5, and
\* the 1980s are the favorite decade
C16_Witness ==
    /\ Turn(9)
    /\ Len(DecadeRatingsOf(1980)) = MaxDecadeFilms
    /\ Len(DecadeRatingsOf(1990)) = 8
    /\ Sum(DecadeRatingsOf(1990)) * Len(DecadeRatingsOf(1980))
            > Sum(DecadeRatingsOf(1980)) * Len(DecadeRatingsOf(1990))
    /\ stats["decades"].favorite_decade = [decade |-> 1980]
    /\ stats["decades"].favorite_decade_avg = Round2(DecadeRatingsOf(1980))

(***************************************************************************)
(* C18: for each film of the rewatches view, rewatch_count is the number   *)
(* of diary rows of the film flagged as rewatch plus 1; the list is in      *)
(* descending order of that count and has at most 10 entries.               *)
(***************************************************************************)
RewatchRows(key) ==
    {i \in DOMAIN letterboxd_data.diary :
        letterboxd_data.diary[i].key = key /\ letterboxd_data.diary[i].rewatch}

C18_RewatchCount ==
    Turn(10) =>
        LET most_rewatched == stats["rewatches"].most_rewatched
        IN  /\ Len(most_rewatched) <= 10
            /\ \A n \in DOMAIN most_rewatched :
                  /\ most_rewatched[n].rewatch_count
                        = Cardinality(RewatchRows(<<most_rewatched[n].title, most_rewatched[n].year>>)) + 1
                  /\ n > 1 => most_rewatched[n - 1].rewatch_count >= most_rewatched[n].rewatch_count

\* more than ten films have rewatch rows, ten are listed, one of them with two
\* rewatch rows and a count of 3, the last with a smaller count
C18_Witness ==
    /\ Turn(10)
    /\ Cardinality({letterboxd_data.diary[i].key : i \in DOMAIN letterboxd_data.diary}) > 10
    /\ Len(stats["rewatches"].most_rewatched) = 10
    /\ \E n \in DOMAIN stats["rewatches"].most_rewatched :
          /\ stats["rewatches"].most_rewatched[n].rewatch_count = 3
          /\ Cardinality(RewatchRows(<<stats["rewatches"].most_rewatched[n].title,
                                       stats["rewatches"].most_rewatched[n].year>>)) = 2
    /\ stats["rewatches"].most_rewatched[10].rewatch_count
          < stats["rewatches"].most_rewatched[1].rewatch_count

(***************************************************************************)
(* C17: for each N of 100, 250, 500, 750, 1000, 1500 and 2000, the journey *)
(* view has a milestone numbered N exactly when the diary has at least N    *)
(* entries, and that milestone names an entry of the diary whose watch date *)
(* is the N-th in the order of the watch dates.                             *)
(***************************************************************************)
\* the milestones of the view; an empty diary leaves a view without any
JourneyMilestones ==
    IF "milestones" \in DOMAIN stats["journey"] THEN stats["journey"].milestones ELSE <<>>

\* the entries of the diary watched before the date, and up to it
WatchedBefore(date) ==
    Cardinality({i \in DOMAIN letterboxd_data.diary : letterboxd_data.diary[i].date < date})

WatchedUpTo(date) ==
    Cardinality({i \in DOMAIN letterboxd_data.diary : letterboxd_data.diary[i].date <= date})

C17_Milestones ==
    Turn(11) =>
        /\ \A N \in Range(milestone_numbers) :
              Cardinality({n \in DOMAIN JourneyMilestones : JourneyMilestones[n].number = N})
                  = IF Len(letterboxd_data.diary) >= N THEN 1 ELSE 0
        /\ \A n \in DOMAIN JourneyMilestones :
              LET m == JourneyMilestones[n]
              IN  /\ \E i \in DOMAIN letterboxd_data.diary :
                        /\ letterboxd_data.diary[i].key = <<m.title, m.year>>
                        /\ letterboxd_data.diary[i].date = m.date
                  /\ WatchedBefore(m.date) < m.number
                  /\ m.number <= WatchedUpTo(m.date)

\* a diary of 1999 entries logged out of the order of the watch dates has the
\* six milestones up to 1500 and not the one of 2000, and its 100th entry
\* by watch date is not the 100th logged
C17_Witness ==
    /\ Turn(11)
    /\ Len(letterboxd_data.diary) = 1999
    /\ {JourneyMilestones[n].number : n \in DOMAIN JourneyMilestones}
          = {100, 250, 500, 750, 1000, 1500}
    /\ JourneyMilestones[1].date # letterboxd_data.diary[100].date

(***************************************************************************)
(* C21: every record made from a catalog row or from the fallback service  *)
(* has at most 10 actors, 3 directors, 2 cinematographers, 2 composers and  *)
(* 3 writers, each list being the first elements of its source list, in the *)
(* order of the source.                                                     *)
(***************************************************************************)
ListCaps ==
    [actors |-> 10, directors |-> 3, cinematographers |-> 2, composers |-> 2, writers |-> 3]

\* the lists the record is made from
SourceLists ==
    IF transform.pc = "catalog"
    THEN [actors |-> CastDetails(transform.source.cast_details),
          directors |-> NamesOf(transform.source.director),
          cinematographers |-> NamesOf(transform.source.director_of_photography),
          composers |-> NamesOf(transform.source.music_composer),
          writers |-> NamesOf(transform.source.writers)]
    ELSE [actors |-> transform.source.credits.cast,
          directors |-> CrewOf(transform.source.credits.crew, {"Director"}),
          cinematographers |-> CrewOf(transform.source.credits.crew, {"Director of Photography"}),
          composers |-> CrewOf(transform.source.credits.crew, {"Original Music Composer"}),
          writers |-> CrewOf(transform.source.credits.crew, {"Screenplay", "Writer"})]

C21_ListsCapped ==
    transform.pc \in {"catalog", "fallback"} =>
        \A field \in DOMAIN ListCaps :
            LET out == transform.record[field]
                from == SourceLists[field]
            IN  /\ Len(out) <= ListCaps[field]
                /\ Len(out) = Min(Len(from), ListCaps[field])
                /\ \A i \in DOMAIN out : out[i] = from[i]

\* a catalog row of eleven actors and four crew names, not all the same: the
\* record keeps the first ten, three, two, two and three
C21_Witness ==
    /\ transform.pc = "catalog"
    /\ Len(SourceLists.actors) = MaxCast
    /\ Len(SourceLists.directors) = 4
    /\ SourceLists.directors[1] # SourceLists.directors[2]
    /\ Len(transform.record.actors) = 10
    /\ Len(transform.record.directors) = 3
    /\ Len(transform.record.cinematographers) = 2
    /\ Len(transform.record.composers) = 2
    /\ Len(transform.record.writers) = 3

(***************************************************************************)
(* C22: whatever the watched set and the store, records without a runtime   *)
(* included, _calculate_fun_facts raises nothing and sets 'fun_facts', and a *)
(* fact whose data is missing or empty is not in the list: no watch time of  *)
(* 0 hours, no top actor of 0 minutes, no films per year of an empty diary.  *)
(***************************************************************************)
C22_FunFactsTotal ==
    (calc.caller = "direct" /\ calc.done = 14)
        => /\ calc.raised = "no"
           /\ "fun_facts" \in DOMAIN stats
           /\ \A i \in DOMAIN stats["fun_facts"] :
                LET fact == stats["fun_facts"][i]
                IN  /\ fact.fact = "watch_time" => stats["runtime"].total_hours > 0
                    /\ fact.fact = "top_actor" => fact.minutes > 0
                    /\ fact.fact = "top_director" => stats["directors"].top_by_count # <<>>
                    /\ fact.fact = "per_year" => letterboxd_data.diary # <<>>

(***************************************************************************)
(* C23: every watched film of the store with a positive runtime is counted  *)
(* in exactly one bucket of the runtime histogram, the lower bound of a      *)
(* bucket being in it (89 in '<90', 90 in '90-120', 120 in '120-150', 150 in *)
(* '150-180', 180 in '180+'); the counts add up to the number of such films, *)
(* and a film without a runtime is in no bucket.                             *)
(***************************************************************************)
\* the positions of the store whose film is watched and has a positive runtime
TimedFilms ==
    {i \in DOMAIN tmdb_data : /\ tmdb_data[i].k \in watched_set
                              /\ tmdb_data[i].v.runtime # NoRuntime
                              /\ tmdb_data[i].v.runtime >= 1}

TimedBetween(lo, hi) ==
    Cardinality({i \in TimedFilms : lo <= tmdb_data[i].v.runtime /\ tmdb_data[i].v.runtime <= hi})

C23_RuntimeBuckets ==
    "runtime" \in DOMAIN stats =>
        LET distribution == stats["runtime"].distribution
        IN  /\ DOMAIN distribution = {"<90", "90-120", "120-150", "150-180", "180+"}
            /\ distribution["<90"] = TimedBetween(1, 89)
            /\ distribution["90-120"] = TimedBetween(90, 119)
            /\ distribution["120-150"] = TimedBetween(120, 149)
            /\ distribution["150-180"] = TimedBetween(150, 179)
            /\ distribution["180+"] = Cardinality({i \in TimedFilms : tmdb_data[i].v.runtime >= 180})
            /\ distribution["<90"] + distribution["90-120"] + distribution["120-150"]
                 + distribution["150-180"] + distribution["180+"] = Cardinality(TimedFilms)

\* the histogram of a store with watched films of 89, 90 and 119 minutes and a
\* watched film without a runtime
C23_Witness ==
    /\ "runtime" \in DOMAIN stats
    /\ \A r \in {NoRuntime, 89, 90, 119} :
          \E i \in DOMAIN tmdb_data : tmdb_data[i].k \in watched_set /\ tmdb_data[i].v.runtime = r
    /\ stats["runtime"].distribution["<90"] = 1
    /\ stats["runtime"].distribution["90-120"] = 2
    /\ Cardinality(TimedFilms) = 3

(***************************************************************************)
(* C24: every top-by-count list (actors, directors, composers,              *)
(* cinematographers, writers, studios, genres, countries, languages) is in   *)
(* descending order of count, and two names of equal count are in the order  *)
(* in which the iteration over the store first meets them.                   *)
(***************************************************************************)
\* the name a is met before the name b in the field of the watched films of
\* the store, iterated in order
SeenBefore(field, a, b) ==
    \E i \in DOMAIN tmdb_data : \E j \in DOMAIN tmdb_data[i].v[field] :
        /\ tmdb_data[i].k \in watched_set
        /\ tmdb_data[i].v[field][j] = a
        /\ \A i2 \in DOMAIN tmdb_data : \A j2 \in DOMAIN tmdb_data[i2].v[field] :
              (tmdb_data[i2].k \in watched_set /\ tmdb_data[i2].v[field][j2] = b)
                  => (i < i2 \/ (i = i2 /\ j < j2))

\* the list of [k, count] is in the order of the claim
OrderedByCount(list, field) ==
    \A m, n \in DOMAIN list :
        m < n => \/ list[m].count > list[n].count
                 \/ list[m].count = list[n].count /\ SeenBefore(field, list[m].k, list[n].k)

NameCounts(top_by_count) ==
    List([n \in DOMAIN top_by_count |-> [k |-> top_by_count[n].name, count |-> top_by_count[n].count]])

GenreCounts(distribution) ==
    List([n \in DOMAIN distribution |-> [k |-> distribution[n].genre, count |-> distribution[n].count]])

\* the views with a top_by_count list, and the field of the store each counts
PeopleViews ==
    {<<"actors", "actors">>, <<"directors", "directors">>, <<"composers", "composers">>,
     <<"cinematographers", "cinematographers">>, <<"writers", "writers">>,
     <<"studios", "production_companies">>}

\* the lists that the calculator sets are in the order of the claim
SetListsOrdered ==
    /\ \A view \in PeopleViews :
          view[1] \in DOMAIN stats =>
              OrderedByCount(NameCounts(stats[view[1]].top_by_count), view[2])
    /\ "genres" \in DOMAIN stats =>
          OrderedByCount(GenreCounts(stats["genres"].distribution), "genres")

\* all the lists of the claim, those of 'geography' included: once the
\* geography method has been called, its lists are there and in order
C24_TopListsOrdered ==
    /\ SetListsOrdered
    /\ calc.done >= 6 =>
          /\ "geography" \in DOMAIN stats
          /\ \A key \in {"top_countries", "top_languages"} :
                \A m, n \in DOMAIN stats["geography"][key] :
                    m < n => stats["geography"][key][m].count >= stats["geography"][key][n].count

(***************************************************************************)
(* C25: for a diary that is not empty, journey.longest_streak is the length *)
(* of the longest run of consecutive calendar days with at least one entry   *)
(* each: 1 when no two dates are adjacent, and a day with several entries    *)
(* counts once.                                                              *)
(***************************************************************************)
\* the days of the diary
DiaryDays == {letterboxd_data.diary[i].date : i \in DOMAIN letterboxd_data.diary}

\* the n days from day on are all among the days
RunFrom(days, day, n) == \A d \in day..(day + n - 1) : d \in days

C25_LongestStreak ==
    ("journey" \in DOMAIN stats /\ letterboxd_data.diary # <<>>) =>
        LET longest_streak == stats["journey"].longest_streak
            days == DiaryDays
        IN  /\ longest_streak >= 1
            /\ \E day \in days : RunFrom(days, day, longest_streak)
            /\ \A day \in days : ~RunFrom(days, day, longest_streak + 1)
            /\ (\A day \in days : day + 1 \notin days) => longest_streak = 1

\* a diary of 30 and 31 December and 1 and 3 January, with two entries on the
\* last day: a streak of three days over the end of the year
C25_Witness ==
    /\ "journey" \in DOMAIN stats
    /\ DiaryDays = {StreakStart + 1, StreakStart + 2, StreakStart + 3, StreakStart + 5}
    /\ YearOf(StreakStart + 2) < YearOf(StreakStart + 3)
    /\ Len(letterboxd_data.diary) = 5
    /\ stats["journey"].longest_streak = 3

(***************************************************************************)
(* C28: every job whose pipeline is started ends in status COMPLETE or      *)
(* ERROR, whatever call raises; its status only moves forward through       *)
(* PENDING, LOADING, ENRICHING, CALCULATING, GENERATING to COMPLETE, or to   *)
(* ERROR, and once COMPLETE or ERROR it does not change.                     *)
(***************************************************************************)
StatusRank(status) ==
    CASE status = "pending" -> 0
      [] status = "loading" -> 1
      [] status = "enriching" -> 2
      [] status = "calculating" -> 3
      [] status = "generating" -> 4
      [] status = "complete" -> 5
      [] status = "error" -> 5

Terminal(j) == j \in DOMAIN jobs /\ jobs[j].status \in {"complete", "error"}

StatusForward ==
    \A j \in DOMAIN jobs :
        j \in DOMAIN jobs' /\ jobs'[j].status # jobs[j].status
            => /\ ~Terminal(j)
               /\ StatusRank(jobs'[j].status) > StatusRank(jobs[j].status)

C26_ResultsBeforeComplete ==
    /\ \A j \in DOMAIN jobs :
          jobs[j].status = "complete" =>
              /\ jobs[j].stats_json # "None" /\ jobs[j].charts_json # "None"
              /\ jobs[j].html # "None"
              /\ "tmdb_fallback_films" \in DOMAIN jobs[j]
    /\ request.pc = "complete" => jobs[request.job_id].status = "complete"
    /\ (request.pc = "replied" /\ request.code = 200) =>
          /\ jobs[request.job_id].status = "complete"
          /\ \A i \in DOMAIN request.data : request.data[i] # "None"

\* the JSON endpoint has replied with the results of a job whose status is
\* COMPLETE and whose percent is not yet 100
C26_Witness ==
    /\ request.pc = "replied" /\ request.endpoint = "json" /\ request.code = 200
    /\ request.data = <<"json", "json">>
    /\ jobs[request.job_id].status = "complete"
    /\ jobs[request.job_id].percent = 95

(***************************************************************************)
(* C27: the percent of a job never decreases, through the reports of the    *)
(* loader and of the enricher and the steps of the pipeline, and it is 100   *)
(* only when the status is COMPLETE.                                         *)
(***************************************************************************)
PercentGrows ==
    \A j \in DOMAIN jobs : j \in DOMAIN jobs' => jobs'[j].percent >= jobs[j].percent

C27_PercentMonotone ==
    /\ [][PercentGrows]_vars
    /\ [](\A j \in DOMAIN jobs : jobs[j].percent = 100 => jobs[j].status = "complete")

\* the last report of the enricher has set the percent of a job with at least
\* one batch
C27_Witness ==
    \E j \in DOMAIN jobs :
        /\ jobs[j].status = "enriching" /\ jobs[j].percent = OnEnrichProgress(98, 1)
        /\ pipeline[j].total_batches >= 1
        /\ pipeline[j].k = pipeline[j].total_batches + 4

(***************************************************************************)
(* C29: a job whose status is COMPLETE or ERROR and that was created more   *)
(* than JOB_EXPIRY_MINUTES ago is in the end removed from the table by the   *)
(* periodic cleanup; a job of any other status is never removed.             *)
(***************************************************************************)
\* the time of the upload of a job: the jobs are uploaded before the first tick
CreatedAt(j) == 0

Expired(j) == Terminal(j) /\ utcnow - CreatedAt(j) > JOB_EXPIRY_MINUTES

OnlyEndedRemoved ==
    \A j \in DOMAIN jobs : j \notin DOMAIN jobs' => Terminal(j)

C29_ExpiredRemoved ==
    /\ \A j \in JobIds : Expired(j) ~> (j \notin DOMAIN jobs)
    /\ [][OnlyEndedRemoved]_vars

(***************************************************************************)
(* C30: under every interleaving of mark_dirty and save, a save clears the  *)
(* dirty flag and the counter of new entries only for the changes it has     *)
(* written: when the flag is clear every change marked dirty is in the file, *)
(* and the counter is at least the number of counted changes not in it.      *)
(***************************************************************************)
C30_SaveCoversMarks ==
    /\ ~cache.dirty => marked.flagged \subseteq disk
    /\ (\A t \in CacheThreads : threads[t].pc = "idle")
          => cache.new_entries >= Cardinality(marked.counted \ disk)

====
